---------------------------- MODULE Spec2Model ----------------------------
(***************************************************************************)
(* A model of ccmonitor's data collection and aggregation pipeline         *)
(* (src/src/ccmonitor/collector.py): the model registry and family         *)
(* resolution, the session parser, the derived metrics of a session, the   *)
(* usage aggregator, the refresh cycle over a directory that other        *)
(* processes change, session discovery, the plan-usage client with its     *)
(* credential discovery and reset-time formatting, and the monitor's       *)
(* background fetches (src/src/ccmonitor/app.py).                          *)
(*                                                                         *)
(* Strings are TLA+ strings (sequences of characters): Len, SubSeq and \o  *)
(* act on them as len(), slicing and + do in Python.                       *)
(***************************************************************************)
EXTENDS Integers, Sequences, FiniteSets, TLC

VARIABLES
    \* family resolution harness
    model_id,       \* the argument of _get_model_family
    family,         \* its return value (NoValue before the call)
    \* derived metrics of one SessionData
    sd,             \* the SessionData whose properties are read
    pct,            \* <<context_usage_pct>> once read, else <<>>
    cost,           \* <<estimated_cost_usd>> once read, else <<>>
    \* summarize_usage
    sessions,       \* the list of SessionData passed to summarize_usage
    summary,        \* the UsageSummary under construction / returned
    now,            \* the value of time.time() read at line 458
    si,             \* the index of the next session of the loop
    spc,            \* "start" | "loop" | "done"
    \* the refresh cycle: collect_all_sessions over a changing directory
    claude_dir,     \* the data directory discover_sessions is given
    projects_dir,   \* whether <claude_dir>/projects exists
    fs,             \* the files below it: path -> [exists, readable, mtime,
                    \* content]
    cpc,            \* where the cycle is: "start" | "sort" | "next" |
                    \* "stat_mtime" | "open" | "read" | "done" | "raised"
    found,          \* the list `sessions` of discover_sessions, then `paths`
    keys,           \* the sort keys computed so far
    ci,             \* the index of the path the cycle is at
    results,        \* the list `sessions` of collect_all_sessions
    error,          \* the exception the cycle raised, "" when none
    \* parse_session
    file,           \* the lines of the session file on disk, in order
    pos,            \* how many lines the running parse has consumed
    decoded,        \* how many lines of the file the reads of the running
                    \* parse have fetched and decoded, 0 once it returned
    session,        \* the SessionData under construction / returned
    pc,             \* "idle" | "stat_mtime" | "reading" | "returned" | "raised"
    prev,           \* <<the SessionData the parse before this one returned,
                    \* its file_size and file_mtime left out (0)>>, or <<>>
    prev_len,       \* the length of the file when that parse ended
    end_len,        \* the length of the file when the running parse ended
    io_error,       \* whether the running parse ended on an OSError
    \* the plan-usage client: _find_oauth_token and fetch_plan_usage
    env,            \* the credential sources: what each of them holds
    ppc,            \* where the call is: "start" | "src1" .. "src5" |
                    \* "resolved" | "decoded" | "returned" | "raised"
    token,          \* the value _find_oauth_token returned (NoValue: None)
    requests,       \* the number of urlopen calls made
    response,       \* <<what urlopen and the decoding gave>>, <<>> before
    plan,           \* <<the PlanUsage fetch_plan_usage returned>>, else <<>>
    avail,          \* <<plan.available>> once read, else <<>>
    \* the monitor's background fetches (app.py)
    mounted,        \* whether on_mount has run
    workers,        \* the workers of group "plan_usage", oldest first
    posted,         \* the number of PlanUsageLoaded messages posted
    inbox,          \* the workers whose PlanUsageLoaded awaits its handler
    applied,        \* the workers whose result the panel was given, in order
    \* the monitor's session list and selection (app.py, session_list.py)
    _sessions,      \* the list of SessionData the last reload produced
    _selected_idx,  \* the application's selected index
    _filter_query,  \* the lowercased text of the filter input
    rows,           \* the sessions shown in the table, top row first
    cursor_row,     \* the row of the table cursor
    row_selected,   \* the DataTable.RowSelected events awaiting the list's
                    \* handler, oldest first: [cursor_row, shown]
    session_selected, \* the SessionSelected messages awaiting the
                    \* application's handler, oldest first: [index, shown]
    picked,         \* <<the session shown in the row whose selection the
                    \* application handled last>>
    \* RateMonitor.update_rates
    messages,       \* the list of MessageStats passed to update_rates
    rate_now,       \* datetime.now() read at line 83
    rates,          \* <<[recent, rpm, tpm_in, tpm_out]>>, <<>> before
    \* find_claude_dir
    home,           \* Path.home()
    present,        \* what each candidate path is on disk
    claude_found,   \* <<the path returned>>, <<>> before the call
    \* the plan-usage panel and the snapshot plan table
    shown_usage,    \* <<the PlanUsage handed over>>, <<>> before
    panel,          \* what the panel shows for each window
    snapshot,       \* the rows of the snapshot plan table
    \* format_reset_time
    resets_at,      \* the argument of format_reset_time
    clock,          \* datetime.now(timezone.utc) read at line 436
    formatted       \* <<the string returned>>, <<>> before the call

famVars == <<model_id, family>>
parseVars == <<file, pos, decoded, session, pc, prev, prev_len, end_len, io_error>>
metricVars == <<sd, pct, cost>>
sumVars == <<sessions, summary, now, si, spc>>
cycleVars == <<claude_dir, projects_dir, fs, cpc, found, keys, ci, results, error>>
planVars == <<env, ppc, token, requests, response, plan, avail>>
appVars == <<mounted, workers, posted, inbox, applied, _sessions, _selected_idx, _filter_query, rows, cursor_row, row_selected, session_selected, picked>>
rateVars == <<messages, rate_now, rates>>
findVars == <<home, present, claude_found>>
showVars == <<shown_usage, panel, snapshot>>
viewVars == <<rateVars, findVars, showVars>>
fmtVars == <<resets_at, clock, formatted>>
clientVars == <<planVars, appVars, fmtVars, viewVars>>
vars == <<famVars, metricVars, sumVars, cycleVars, parseVars, clientVars>>

\* What the actions of each part leave alone.
notFamily == <<metricVars, sumVars, cycleVars, parseVars, clientVars>>
notMetric == <<famVars, sumVars, cycleVars, parseVars, clientVars>>
notSummary == <<famVars, metricVars, cycleVars, parseVars, clientVars>>
notParse == <<famVars, metricVars, sumVars, cycleVars, clientVars>>
notCycle == <<famVars, metricVars, sumVars, clientVars>>
notPlan == <<famVars, metricVars, sumVars, cycleVars, parseVars, appVars, fmtVars, viewVars>>
notApp == <<famVars, metricVars, sumVars, cycleVars, parseVars, planVars, fmtVars, viewVars>>
notFormat == <<famVars, metricVars, sumVars, cycleVars, parseVars, planVars, appVars, viewVars>>
notRate == <<famVars, metricVars, sumVars, cycleVars, parseVars, planVars, appVars, fmtVars, findVars, showVars>>
notFind == <<famVars, metricVars, sumVars, cycleVars, parseVars, planVars, appVars, fmtVars, rateVars, showVars>>
notShow == <<famVars, metricVars, sumVars, cycleVars, parseVars, planVars, appVars, fmtVars, rateVars, findVars>>

NoValue == "<none>"

Max(S) == CHOOSE x \in S : \A y \in S : y <= x
Min(S) == CHOOSE x \in S : \A y \in S : x <= y

----------------------------------------------------------------------------
(* Model registry: collector.py lines 15-49.  Prices are in cents per      *)
(* million tokens, so that every price of the tables is an integer.        *)

\* The keys of MODEL_CONTEXT_WINDOWS in insertion (iteration) order.
FamilyOrder ==
    << "claude-opus-4", "claude-sonnet-4", "claude-haiku-4",
       "claude-3-5-sonnet", "claude-3-5-haiku",
       "claude-3-opus", "claude-3-sonnet", "claude-3-haiku" >>

Families == {FamilyOrder[i] : i \in 1..Len(FamilyOrder)}

DefaultContextWindow == 200000

MODEL_CONTEXT_WINDOWS == [f \in Families |-> 200000]

\* (input, output) price per million tokens, in cents
MODEL_PRICING ==
    [f \in Families |->
        CASE f = "claude-opus-4" -> <<1500, 7500>>
          [] f = "claude-sonnet-4" -> <<300, 1500>>
          [] f = "claude-haiku-4" -> <<80, 400>>
          [] f = "claude-3-5-sonnet" -> <<300, 1500>>
          [] f = "claude-3-5-haiku" -> <<80, 400>>
          [] f = "claude-3-opus" -> <<1500, 7500>>
          [] f = "claude-3-sonnet" -> <<300, 1500>>
          [] f = "claude-3-haiku" -> <<25, 125>>]

\* (write, read) cache price per million tokens, in cents
CACHE_PRICING ==
    [f \in Families |->
        CASE f = "claude-opus-4" -> <<1875, 150>>
          [] f = "claude-sonnet-4" -> <<375, 30>>
          [] f = "claude-haiku-4" -> <<100, 8>>
          [] f = "claude-3-5-sonnet" -> <<375, 30>>
          [] f = "claude-3-5-haiku" -> <<100, 8>>
          [] f = "claude-3-opus" -> <<1875, 150>>
          [] f = "claude-3-sonnet" -> <<375, 30>>
          [] f = "claude-3-haiku" -> <<30, 3>>]

DefaultPricing_zero == <<0, 0>>

\* The defaults of MODEL_PRICING.get and CACHE_PRICING.get, in cents
DefaultPricing == <<300, 1500>>
DefaultCachePricing == <<375, 30>>

\* F(v), the value v being computed once and not at each place where F
\* reads its argument.
Eval(F(_), v) == CHOOSE r \in {F(x) : x \in {v}} : TRUE

\* model.startswith(prefix)
StartsWith(s, p) == Len(p) <= Len(s) /\ SubSeq(s, 1, Len(p)) = p

\* s.split("-") from character i on, cur being the part read so far
RECURSIVE SplitFrom(_, _, _)
SplitFrom(s, i, cur) ==
    IF i > Len(s) THEN <<cur>>
    ELSE IF SubSeq(s, i, i) = "-"
         THEN <<cur>> \o SplitFrom(s, i + 1, "")
         ELSE SplitFrom(s, i + 1, cur \o SubSeq(s, i, i))

Split(s) == SplitFrom(s, 1, "")

\* "-".join(parts)
RECURSIVE Join(_)
Join(parts) ==
    IF Len(parts) = 0 THEN ""
    ELSE IF Len(parts) = 1 THEN parts[1]
    ELSE parts[1] \o "-" \o Join(Tail(parts))

\* The first loop of _get_model_family: the first family, in table order,
\* that the identifier starts with; NoValue when there is none.
PrefixStep(id) ==
    LET hits == {i \in 1..Len(FamilyOrder) : StartsWith(id, FamilyOrder[i])}
    IN  IF hits # {} THEN FamilyOrder[Min(hits)] ELSE NoValue

Unresolved_blank(id) == ""

\* What _get_model_family returns when neither loop finds a family.
Unresolved(id) == id

\* The second loop: candidates "-".join(parts[:length]) for length from
\* len(parts) down to 2, the first one that is a key of the table; the
\* identifier itself when there is none.
StripStep(id) ==
    LET parts == Split(id)
        ok == {n \in 2..Len(parts) : Join(SubSeq(parts, 1, n)) \in Families}
    IN  IF ok # {} THEN Join(SubSeq(parts, 1, Max(ok))) ELSE Unresolved(id)

_get_model_family_strip_only(id) == StripStep(id)

_get_model_family(id) ==
    IF PrefixStep(id) # NoValue THEN PrefixStep(id) ELSE StripStep(id)


----------------------------------------------------------------------------
(* Session files.  A line of a file is described by what the loop of       *)
(* parse_session makes of it:                                              *)
(*   "undecodable" bytes that are no UTF-8 text: reading them raises       *)
(*                UnicodeDecodeError.  With fault "cut" they are the first *)
(*                bytes of a character, and the file ends with them (no    *)
(*                newline follows): the decoder holds them back until the  *)
(*                next read shows what follows them.  Every other line of  *)
(*                a file ends with its newline                             *)
(*   "overlong"   JSON that holds an integer of more than 4300 digits:     *)
(*                json.loads raises ValueError                             *)
(*   "overdeep"   JSON nested deeper than the interpreter recurses:        *)
(*                json.loads raises RecursionError                         *)
(*   "blank"      empty after strip()                                      *)
(*   "malformed"  json.loads raises JSONDecodeError                        *)
(*   "nonobject"  valid JSON that is not an object ([], 42, "x", null)     *)
(*   "record"     a JSON object; type, timestamp, model and the usage      *)
(*                fields hold the values the .get(...) calls return, an    *)
(*                absent key holding the default ("" or 0); message_ok is  *)
(*                FALSE when the loop body cannot work with the values of  *)
(*                an assistant record, and fault then names the first      *)
(*                value it fails on: "message" or "usage" (the value is    *)
(*                not an object: null, a string, a list), "model" (a true  *)
(*                value that is not a string: 5, [1]) or "count" (one of   *)
(*                the four token counts is not a number: "5", null, [])    *)

Usage(i, o, cc, cr) ==
    [input_tokens |-> i, output_tokens |-> o,
     cache_creation_input_tokens |-> cc, cache_read_input_tokens |-> cr]

NoUsage == Usage(0, 0, 0, 0)

Line(kind, type, ts, ok, model, usage) ==
    [kind |-> kind, type |-> type, timestamp |-> ts, message_ok |-> ok,
     fault |-> "", model |-> model, usage |-> usage]

BlankLine == Line("blank", "", "", TRUE, "", NoUsage)
MalformedLine == Line("malformed", "", "", TRUE, "", NoUsage)
UndecodableLine == Line("undecodable", "", "", TRUE, "", NoUsage)
UnloadableLine(kind) == Line(kind, "", "", TRUE, "", NoUsage)
NonObjectLine == Line("nonobject", "", "", TRUE, "", NoUsage)
UserLine(ts) == Line("record", "user", ts, TRUE, "", NoUsage)
OtherLine(type, ts) == Line("record", type, ts, TRUE, "", NoUsage)
AssistantLine(ts, model, usage) ==
    Line("record", "assistant", ts, TRUE, model, usage)
BadMessageLine(ts, fault) ==
    [Line("record", "assistant", ts, FALSE, "", NoUsage) EXCEPT !.fault = fault]

\* A path is the sequence of its segments, the first one "" for the root.
\* The data directory (claude_dir):
ClaudeDir == <<"", "home", "user", ".claude">>

\* The path of the session file of the parse harness.
SessionPath ==
    ClaudeDir \o <<"projects", "-home-user-testproject", "session-abc.jsonl">>

\* Path.stem of a name: the name without its last suffix.  The suffix
\* starts at the last dot of the name, unless that dot is the first or the
\* last character of the name: LastDot is the position of the dot the
\* suffix starts at, looking from position i backward, 0 when there is
\* no suffix.
Stem(name) ==
    LET RECURSIVE LastDot(_)
        LastDot(i) ==
            IF i <= 1 THEN 0
            ELSE IF SubSeq(name, i, i) = "."
                 THEN (IF i = Len(name) THEN 0 ELSE i)
                 ELSE LastDot(i - 1)
        d == LastDot(Len(name))
    IN  IF d = 0 THEN name ELSE SubSeq(name, 1, d - 1)

\* str(path); the path of no segment is written "."
RECURSIVE PathStr(_)
PathStr(path) ==
    IF Len(path) = 0 THEN "."
    ELSE IF Len(path) = 1 THEN (IF path[1] = "" THEN "/" ELSE path[1])
    ELSE path[1] \o "/" \o PathStr(Tail(path))

\* SessionData(session_id=..., project_path=..., file_path=..., file_size=...,
\* file_mtime=...) with the dataclass defaults for the other fields
SessionData(path, st_size, st_mtime) ==
    [session_id |-> IF Len(path) >= 1 THEN Stem(path[Len(path)]) ELSE "",
     project_path |-> IF Len(path) >= 2 THEN path[Len(path) - 1] ELSE "",
     model |-> "",
     started_at |-> "",
     last_activity |-> "",
     total_input_tokens |-> 0,
     total_output_tokens |-> 0,
     total_cache_creation_tokens |-> 0,
     total_cache_read_tokens |-> 0,
     message_count |-> 0,
     user_message_count |-> 0,
     assistant_message_count |-> 0,
     messages |-> <<>>,
     latest_context_used |-> 0,
     context_window_size |-> DefaultContextWindow,
     file_path |-> PathStr(path),
     file_size |-> st_size,
     file_mtime |-> st_mtime]

\* UsageSummary() with the dataclass defaults (lines 266-277); the cost is
\* an amount of money <<cents, millionths of a cent>>
UsageSummary ==
    [total_sessions |-> 0,
     active_sessions |-> 0,
     total_input_tokens |-> 0,
     total_output_tokens |-> 0,
     total_cache_creation_tokens |-> 0,
     total_cache_read_tokens |-> 0,
     total_cost_usd |-> <<0, 0>>,
     total_messages |-> 0,
     models_used |-> {}]

MessageStats_no_cache(ts, model, usage, type) ==
    [timestamp |-> ts,
     model |-> model,
     input_tokens |-> usage.input_tokens,
     output_tokens |-> usage.output_tokens,
     cache_creation_tokens |-> 0,
     cache_read_tokens |-> 0,
     message_type |-> type]

MessageStats(ts, model, usage, type) ==
    [timestamp |-> ts,
     model |-> model,
     input_tokens |-> usage.input_tokens,
     output_tokens |-> usage.output_tokens,
     cache_creation_tokens |-> usage.cache_creation_input_tokens,
     cache_read_tokens |-> usage.cache_read_input_tokens,
     message_type |-> type]

\* MODEL_CONTEXT_WINDOWS.get(family, 200_000)
ContextWindowOf(model) ==
    LET fam == _get_model_family(model)
    IN  IF fam \in Families THEN MODEL_CONTEXT_WINDOWS[fam]
        ELSE DefaultContextWindow

CountEntry_first_overwritten(s, e) ==
    [s EXCEPT
        !.started_at = IF e.timestamp # "" THEN e.timestamp ELSE @,
        !.last_activity = IF e.timestamp # "" THEN e.timestamp ELSE @,
        !.message_count = @ + 1]

\* Lines 201-209: timestamps and the message counter, for every record.
CountEntry(s, e) ==
    [s EXCEPT
        !.started_at = IF s.started_at = "" /\ e.timestamp # ""
                       THEN e.timestamp ELSE @,
        !.last_activity = IF e.timestamp # "" THEN e.timestamp ELSE @,
        !.message_count = @ + 1]

AddUsage_overwrite(s, u) ==
    [s EXCEPT
        !.total_input_tokens = u.input_tokens,
        !.total_output_tokens = u.output_tokens,
        !.total_cache_creation_tokens = u.cache_creation_input_tokens,
        !.total_cache_read_tokens = u.cache_read_input_tokens]

\* Lines 226-234: the four running totals.
AddUsage(s, u) ==
    [s EXCEPT
        !.total_input_tokens = @ + u.input_tokens,
        !.total_output_tokens = @ + u.output_tokens,
        !.total_cache_creation_tokens = @ + u.cache_creation_input_tokens,
        !.total_cache_read_tokens = @ + u.cache_read_input_tokens]

AssistantEntry_accumulate(s, e) ==
    LET s1 == [s EXCEPT !.assistant_message_count = @ + 1]
        s2 == IF e.model # ""
              THEN [s1 EXCEPT !.model = e.model,
                              !.context_window_size = ContextWindowOf(e.model)]
              ELSE s1
        s3 == AddUsage(s2, e.usage)
    IN  [s3 EXCEPT
            !.latest_context_used =
                @ + e.usage.input_tokens + e.usage.cache_creation_input_tokens
                    + e.usage.cache_read_input_tokens,
            !.messages = Append(@, MessageStats(e.timestamp, e.model,
                                                e.usage, e.type))]

AssistantEntry_model_always(s, e) ==
    LET s1 == [s EXCEPT !.assistant_message_count = @ + 1,
                        !.model = e.model,
                        !.context_window_size = ContextWindowOf(e.model)]
        s3 == AddUsage(s1, e.usage)
    IN  [s3 EXCEPT
            !.latest_context_used =
                e.usage.input_tokens + e.usage.cache_creation_input_tokens
                    + e.usage.cache_read_input_tokens,
            !.messages = Append(@, MessageStats(e.timestamp, e.model,
                                                e.usage, e.type))]

\* Lines 213-249: the assistant branch.
AssistantEntry(s, e) ==
    LET s1 == [s EXCEPT !.assistant_message_count = @ + 1]
        s2 == IF e.model # ""
              THEN [s1 EXCEPT !.model = e.model,
                              !.context_window_size = ContextWindowOf(e.model)]
              ELSE s1
        s3 == AddUsage(s2, e.usage)
    IN  [s3 EXCEPT
            !.latest_context_used =
                e.usage.input_tokens + e.usage.cache_creation_input_tokens
                    + e.usage.cache_read_input_tokens,
            !.messages = Append(@, MessageStats(e.timestamp, e.model,
                                                e.usage, e.type))]

ProcessEntry_other_as_user(s, e) ==
    LET s1 == CountEntry(s, e)
    IN  IF e.type = "assistant" THEN AssistantEntry(s1, e)
        ELSE [s1 EXCEPT !.user_message_count = @ + 1]

\* Lines 201-249: the body of the loop for one decoded object.
ProcessEntry(s, e) ==
    LET s1 == CountEntry(s, e)
    IN  IF e.type = "user"
        THEN [s1 EXCEPT !.user_message_count = @ + 1]
        ELSE IF e.type = "assistant" THEN AssistantEntry(s1, e)
        ELSE s1

Skipped_blank_only(l) == l.kind = "blank"

\* Lines 193-199: the lines the loop passes over with `continue`.
Skipped(l) == l.kind \in {"blank", "malformed"}

\* The exception the loop raises on a line, "" when it raises none:
\* the UnicodeDecodeError of reading bytes that are no UTF-8 text (line
\* 192), the ValueError and the RecursionError of json.loads (line 197,
\* which passes over JSONDecodeError only), entry.get on a decoded value
\* that is not a dict (line 201), and in an assistant record message.get /
\* usage.get on a value that is not a dict (lines 216-229),
\* _get_model_family on a model that is not a string (line 221) and the
\* sums with a token count that is not a number (lines 231-237).
Raised(l) ==
    CASE l.kind = "undecodable" -> "UnicodeDecodeError"
      [] l.kind = "overlong" -> "ValueError"
      [] l.kind = "overdeep" -> "RecursionError"
      [] l.kind = "nonobject" -> "AttributeError"
      [] l.kind = "record" /\ l.type = "assistant" /\ ~l.message_ok ->
            IF l.fault = "count" THEN "TypeError" ELSE "AttributeError"
      [] OTHER -> ""

\* The lines on which the loop raises an exception: the
\* `except (OSError, PermissionError)` of line 250 catches none of them.
Raises(l) == Raised(l) # ""

----------------------------------------------------------------------------
(* parse_session as a state machine over one session file that another     *)
(* process appends to.  The parse reads the file line by line (ReadLine),  *)
(* returns at its end (EndOfFile) or when reading fails with an OSError,   *)
(* which line 250 catches (ReadError), and raises when the loop body       *)
(* raises anything else.                                                   *)

MaxLines == 3

\* Lines 179-186: a parse starts with jsonl_path.stat().st_size; the
\* result of a parse that returned becomes the previous result.  The size
\* is counted in lines and the modification time is a logical clock, the
\* number of appends so far: both are Len(file).
StatFileSize ==
    /\ pc \in {"idle", "returned", "raised"}
    /\ prev' = IF pc = "returned"
               THEN <<[session EXCEPT !.file_size = 0, !.file_mtime = 0]>>
               ELSE prev
    /\ prev_len' = IF pc = "returned" THEN end_len ELSE prev_len
    /\ session' = SessionData(SessionPath, Len(file), 0)
    /\ pos' = 0
    /\ decoded' = 0
    /\ end_len' = 0
    /\ io_error' = FALSE
    /\ pc' = "stat_mtime"
    /\ UNCHANGED file
    /\ UNCHANGED notParse

\* Lines 187-191: jsonl_path.stat().st_mtime, a second call of stat()
\* that sees the lines appended since the first, and open().  The file is
\* read line by line afterwards, so a line appended between the second
\* stat() and open() is one appended after open().
OpenFile ==
    /\ pc = "stat_mtime"
    /\ session' = [session EXCEPT !.file_mtime = Len(file)]
    /\ pc' = "reading"
    /\ UNCHANGED <<file, pos, decoded, prev, prev_len, end_len, io_error>>
    /\ UNCHANGED notParse

\* Lines 186-187: stat() of a file that is not there raises
\* FileNotFoundError, outside the try of line 190, and no SessionData is
\* made; the session file is there again for the next call.
StatError ==
    /\ pc \in {"idle", "returned", "raised", "stat_mtime"}
    /\ prev' = IF pc = "returned"
               THEN <<[session EXCEPT !.file_size = 0, !.file_mtime = 0]>>
               ELSE prev
    /\ prev_len' = IF pc = "returned" THEN end_len ELSE prev_len
    /\ session' = SessionData(SessionPath, 0, 0)
    /\ pos' = 0
    /\ decoded' = 0
    /\ end_len' = 0
    /\ io_error' = FALSE
    /\ pc' = "raised"
    /\ UNCHANGED file
    /\ UNCHANGED notParse

\* Lines 192-249: one iteration of `for line in f`.  The file object hands
\* out the lines it has decoded; when it has none left (pos = decoded) it
\* reads what the file holds beyond them, up to 8192 bytes, and decodes all
\* of it before it hands out a line, so bytes that are no UTF-8 text
\* anywhere in what it read raise UnicodeDecodeError before any of those
\* lines is worked on.  The first bytes of a character that end the file
\* are held back and the lines before them handed out; they raise when the
\* loop asks for the line they are in, the read then finding the end of the
\* file.  The files of the model are shorter than 8192 bytes: a read
\* fetches every line the file holds at that moment.
ReadLine ==
    /\ pc = "reading"
    /\ pos < Len(file)
    /\ LET fetched ==
               IF /\ file[Len(file)].kind = "undecodable"
                  /\ file[Len(file)].fault = "cut"
               THEN Len(file) - 1 ELSE Len(file)
       IN  IF /\ pos = decoded
              /\ \/ pos = fetched
                 \/ \E k \in (pos + 1)..fetched : file[k].kind = "undecodable"
           THEN /\ pc' = "raised"
                /\ end_len' = Len(file)
                /\ UNCHANGED <<session, pos, decoded>>
           ELSE LET l == file[pos + 1]
                IN  /\ decoded' = IF pos = decoded THEN fetched ELSE decoded
                    /\ IF Skipped(l)
                       THEN /\ pos' = pos + 1
                            /\ UNCHANGED <<session, pc, end_len>>
                       ELSE IF Raises(l)
                       THEN /\ pc' = "raised"
                            /\ end_len' = Len(file)
                            /\ UNCHANGED <<session, pos>>
                       ELSE /\ session' = ProcessEntry(session, l)
                            /\ pos' = pos + 1
                            /\ UNCHANGED <<pc, end_len>>
    /\ UNCHANGED <<file, prev, prev_len, io_error>>
    /\ UNCHANGED notParse

\* Line 253 after the loop ran off the end of the file.
EndOfFile ==
    /\ pc = "reading"
    /\ pos = Len(file)
    /\ pc' = "returned"
    /\ decoded' = 0
    /\ end_len' = Len(file)
    /\ UNCHANGED <<file, pos, session, prev, prev_len, io_error>>
    /\ UNCHANGED notParse

\* Lines 250-253: open() or a read fails with an OSError; the session
\* aggregated so far is returned.
ReadError ==
    /\ pc = "reading"
    /\ pc' = "returned"
    /\ io_error' = TRUE
    /\ decoded' = 0
    /\ end_len' = Len(file)
    /\ UNCHANGED <<file, pos, session, prev, prev_len>>
    /\ UNCHANGED notParse

\* The writer of the log appends one line.  After the first bytes of a
\* character that ended the file, what it writes continues that line: the
\* bytes no longer begin a character, the line is no UTF-8 text.
AppendLine(alphabet) ==
    /\ \E l \in alphabet :
          IF /\ Len(file) > 0
             /\ file[Len(file)].kind = "undecodable"
             /\ file[Len(file)].fault = "cut"
          THEN file' = [file EXCEPT ![Len(file)] = UndecodableLine]
          ELSE Len(file) < MaxLines /\ file' = Append(file, l)
    /\ UNCHANGED <<pos, decoded, session, pc, prev, prev_len, end_len, io_error>>
    /\ UNCHANGED notParse

ParseInit ==
    /\ file = <<>>
    /\ pos = 0
    /\ decoded = 0
    /\ session = SessionData(SessionPath, 0, 0)
    /\ pc = "idle"
    /\ prev = <<>>
    /\ prev_len = 0
    /\ end_len = 0
    /\ io_error = FALSE

\* The lines the writer may append: blank lines, lines that are no JSON,
\* values that decode but are no record, and user, other-typed and
\* assistant records with and without a model, with differing token
\* counts.
TokenLines ==
    { BlankLine, MalformedLine, NonObjectLine,
      BadMessageLine("2025-01-01T00:00:03Z", "usage"),
      UserLine("2025-01-01T00:00:00Z"),
      OtherLine("summary", ""),
      AssistantLine("2025-01-01T00:00:05Z", "claude-sonnet-4-5-20250929",
                    Usage(1000, 500, 200, 100)),
      AssistantLine("2025-01-01T00:00:09Z", "", Usage(7, 0, 0, 300)) }

FamilyIdle == model_id = "" /\ family = NoValue

MetricIdle == sd = SessionData(SessionPath, 0, 0) /\ pct = <<>> /\ cost = <<>>

CycleIdle ==
    /\ claude_dir = ClaudeDir
    /\ projects_dir = FALSE
    /\ fs = <<>>
    /\ cpc = "start"
    /\ found = <<>>
    /\ keys = <<>>
    /\ ci = 1
    /\ results = <<>>
    /\ error = ""

SummaryIdle ==
    /\ sessions = <<>>
    /\ summary = UsageSummary
    /\ now = 0
    /\ si = 1
    /\ spc = "start"

PlanIdle ==
    /\ env = <<>>
    /\ ppc = "start"
    /\ token = NoValue
    /\ requests = 0
    /\ response = <<>>
    /\ plan = <<>>
    /\ avail = <<>>

\* app.py lines 224-234: the fields after construction, nothing mounted.
AppIdle ==
    /\ mounted = FALSE /\ workers = <<>> /\ posted = 0
    /\ inbox = <<>> /\ applied = <<>>
    /\ _sessions = <<>> /\ _selected_idx = 0 /\ _filter_query = ""
    /\ rows = <<>> /\ cursor_row = 0 /\ picked = <<>>
    /\ row_selected = <<>> /\ session_selected = <<>>

RateIdle == messages = <<>> /\ rate_now = <<>> /\ rates = <<>>

FindIdle == home = "" /\ present = <<>> /\ claude_found = <<>>

ShowIdle == shown_usage = <<>> /\ panel = <<>> /\ snapshot = <<>>

ViewIdle == RateIdle /\ FindIdle /\ ShowIdle

FormatIdle == resets_at = "" /\ clock = <<>> /\ formatted = <<>>

ClientIdle == PlanIdle /\ AppIdle /\ FormatIdle /\ ViewIdle

ParseIdle == ParseInit

InitParse == ParseInit /\ FamilyIdle /\ MetricIdle /\ SummaryIdle /\ CycleIdle
    /\ ClientIdle

ParseNext ==
    \/ StatFileSize
    \/ OpenFile
    \/ StatError
    \/ ReadLine
    \/ EndOfFile
    \/ ReadError
    \/ AppendLine(TokenLines)

\* parse_session over a growing file
SpecParse == InitParse /\ [][ParseNext]_vars

----------------------------------------------------------------------------
(* _get_model_family applied to one identifier. *)

\* Identifiers: every prefix of every family name, followed by one of a
\* few suffixes, and some identifiers that share nothing with the table.
Suffixes == {"", "-", "-6", "1", "-5-20250929", "x-y"}

Identifiers ==
    {SubSeq(f, 1, k) \o suf : f \in Families, k \in 0..13, suf \in Suffixes}
        \cup {f \o suf : f \in Families, suf \in Suffixes}
        \cup {"some-unknown-model", "gpt4", "claude", "x-claude-opus-4"}

FamilyStart ==
    /\ model_id \in Identifiers
    /\ family = NoValue

Resolve ==
    /\ family = NoValue
    /\ family' = _get_model_family(model_id)
    /\ UNCHANGED model_id
    /\ UNCHANGED notFamily

InitFamily == FamilyStart /\ ParseIdle /\ MetricIdle /\ SummaryIdle /\ CycleIdle
    /\ ClientIdle

FamilyNext == Resolve

SpecFamily == InitFamily /\ [][FamilyNext]_vars

----------------------------------------------------------------------------
(* The computed properties of SessionData, lines 104-122.                  *)
(*                                                                         *)
(* Python computes them in floating point; the model computes the exact    *)
(* values.  A percentage is a fraction <<numerator, denominator>> in       *)
(* lowest terms.  An amount of money is <<c, r>>: c cents plus r           *)
(* millionths of a cent, 0 <= r < 1000000, so that tokens / 1_000_000      *)
(* times a price in cents is exact.                                        *)

Million == 1000000

RECURSIVE GCD(_, _)
GCD(a, b) == IF b = 0 THEN a ELSE GCD(b, a % b)

\* The fraction n / d, d > 0, in lowest terms
Rat(n, d) == <<n \div GCD(n, d), d \div GCD(n, d)>>

RatMin(a, b) == IF a[1] * b[2] <= b[1] * a[2] THEN a ELSE b

\* (tokens / 1_000_000) * price
MoneyTimes(tokens, price) ==
    LET low == (tokens % Million) * price
    IN  <<(tokens \div Million) * price + low \div Million, low % Million>>

MoneyPlus(a, b) ==
    <<a[1] + b[1] + (a[2] + b[2]) \div Million, (a[2] + b[2]) % Million>>

context_usage_pct_uncapped(s) ==
    IF s.context_window_size = 0 THEN Rat(0, 1)
    ELSE Rat(s.latest_context_used * 100, s.context_window_size)

context_usage_pct(s) ==
    IF s.context_window_size = 0 THEN Rat(0, 1)
    ELSE RatMin(Rat(100, 1),
                Rat(s.latest_context_used * 100, s.context_window_size))

estimated_cost_usd(s) ==
    LET fam == _get_model_family(s.model)
        io == IF fam \in DOMAIN MODEL_PRICING THEN MODEL_PRICING[fam]
              ELSE DefaultPricing
        wr == IF fam \in DOMAIN CACHE_PRICING THEN CACHE_PRICING[fam]
              ELSE DefaultCachePricing
    IN  MoneyPlus(
            MoneyPlus(
                MoneyPlus(MoneyTimes(s.total_input_tokens, io[1]),
                          MoneyTimes(s.total_output_tokens, io[2])),
                MoneyTimes(s.total_cache_creation_tokens, wr[1])),
            MoneyTimes(s.total_cache_read_tokens, wr[2]))

\* The sessions whose properties are read: every known family, bare and
\* with a version, an unknown model and no model; token totals up to
\* MaxTokens and one million; context fills below, at and above the window.
MaxTokens == 1

ModelSamples ==
    Families \cup {"", "some-unknown-model", "claude-sonnet-4-5-20250929",
                   "claude-opus-4-6"}

TokenSamples == (0..MaxTokens) \cup {Million}

ContextSamples == {0, 1, 2, 100000, 200000, 300000}

WindowSamples == {0, 1, 3, DefaultContextWindow}

MetricStart ==
    /\ \E m \in ModelSamples, i, o, cc, cr \in TokenSamples,
          used \in ContextSamples, w \in WindowSamples :
          sd = [SessionData(SessionPath, 0, 0) EXCEPT
                    !.model = m,
                    !.total_input_tokens = i,
                    !.total_output_tokens = o,
                    !.total_cache_creation_tokens = cc,
                    !.total_cache_read_tokens = cr,
                    !.latest_context_used = used,
                    !.context_window_size = w]
    /\ pct = <<>>
    /\ cost = <<>>

ReadContextUsagePct ==
    /\ pct = <<>>
    /\ pct' = <<context_usage_pct(sd)>>
    /\ UNCHANGED <<sd, cost>>
    /\ UNCHANGED notMetric

ReadEstimatedCost ==
    /\ cost = <<>>
    /\ cost' = <<estimated_cost_usd(sd)>>
    /\ UNCHANGED <<sd, pct>>
    /\ UNCHANGED notMetric

InitMetrics == MetricStart /\ FamilyIdle /\ ParseIdle /\ SummaryIdle /\ CycleIdle
    /\ ClientIdle

MetricNext == ReadContextUsagePct \/ ReadEstimatedCost

SpecMetrics == InitMetrics /\ [][MetricNext]_vars

----------------------------------------------------------------------------
(* Properties of parse_session (SpecParse). *)

\* A line that decodes to a well-formed record.
ValidRecord(l) ==
    l.kind = "record" /\ (l.type = "assistant" => l.message_ok)

ValidAssistant(l) == ValidRecord(l) /\ l.type = "assistant"

\* The lines the running parse has consumed.
LinesRead == SubSeq(file, 1, pos)

AssistantsRead == SelectSeq(LinesRead, ValidAssistant)

RecordsRead == SelectSeq(LinesRead, ValidRecord)

RECURSIVE SumSeq(_)
SumSeq(seq) == IF Len(seq) = 0 THEN 0 ELSE Head(seq) + SumSeq(Tail(seq))

SumOver(seq, F(_)) == SumSeq([k \in 1..Len(seq) |-> F(seq[k])])

\* C1: while a parse runs and when it has returned, the message sequence
\* holds exactly one MessageStats per valid assistant line consumed, in
\* file order and with that line's values; message_count is the number of
\* valid record lines consumed and user_message_count the number of those
\* of type "user"; the totals are the sums over the assistant
\* lines, so that blank and malformed lines contribute nothing; and a
\* parse that returned without a read error consumed the whole file.
C1_OneStatPerAssistantLine ==
    pc \in {"reading", "returned"} =>
        /\ Len(session.messages) = Len(AssistantsRead)
        /\ \A k \in 1..Len(AssistantsRead) :
              /\ session.messages[k].timestamp = AssistantsRead[k].timestamp
              /\ session.messages[k].model = AssistantsRead[k].model
              /\ session.messages[k].input_tokens
                    = AssistantsRead[k].usage.input_tokens
              /\ session.messages[k].output_tokens
                    = AssistantsRead[k].usage.output_tokens
              /\ session.messages[k].message_type = "assistant"
        /\ session.message_count = Len(RecordsRead)
        /\ session.user_message_count
              = Cardinality({k \in 1..Len(RecordsRead) :
                               RecordsRead[k].type = "user"})
        /\ session.assistant_message_count = Len(AssistantsRead)
        /\ session.total_input_tokens
              = SumOver(AssistantsRead, LAMBDA l : l.usage.input_tokens)
        /\ session.total_output_tokens
              = SumOver(AssistantsRead, LAMBDA l : l.usage.output_tokens)
        /\ session.total_cache_creation_tokens
              = SumOver(AssistantsRead,
                        LAMBDA l : l.usage.cache_creation_input_tokens)
        /\ session.total_cache_read_tokens
              = SumOver(AssistantsRead,
                        LAMBDA l : l.usage.cache_read_input_tokens)
        /\ (pc = "returned" /\ ~io_error => pos = end_len)

\* A parse returned for a file of three lines: a malformed line between a
\* user record and an assistant record.
C1_Witness ==
    /\ pc = "returned" /\ ~io_error /\ pos = 3 /\ Len(file) = 3
    /\ file[1].type = "user"
    /\ file[2].kind = "malformed"
    /\ ValidAssistant(file[3])
    /\ session.message_count = 2
    /\ Len(session.messages) = 1

\* C2: parse_session never raises, whatever the lines of the file: a line
\* that does not decode as a record is skipped.
C2_NeverRaises == pc # "raised"

\* The lines appended since the previous parse returned.
AppendedSincePrev == SubSeq(file, prev_len + 1, end_len)

\* C4 as claimed: when a parse returns after only valid record lines were
\* appended since an earlier parse returned, each of the four token totals
\* is at least the earlier parse's.
C4_TotalsMonotonic ==
    ( /\ pc = "returned" /\ prev # <<>>
      /\ \A k \in 1..Len(AppendedSincePrev) : ValidRecord(AppendedSincePrev[k]) )
    =>
        /\ session.total_input_tokens >= prev[1].total_input_tokens
        /\ session.total_output_tokens >= prev[1].total_output_tokens
        /\ session.total_cache_creation_tokens
              >= prev[1].total_cache_creation_tokens
        /\ session.total_cache_read_tokens >= prev[1].total_cache_read_tokens

\* C4: when a parse has read the whole file, no read error cutting it
\* short, after only valid record lines were appended since an earlier
\* parse returned, each of the four token totals is at least the earlier
\* parse's.
C4_TotalsMonotonicWhenReadToEnd ==
    ( /\ pc = "returned" /\ ~io_error /\ prev # <<>>
      /\ \A k \in 1..Len(AppendedSincePrev) : ValidRecord(AppendedSincePrev[k]) )
    =>
        /\ session.total_input_tokens >= prev[1].total_input_tokens
        /\ session.total_output_tokens >= prev[1].total_output_tokens
        /\ session.total_cache_creation_tokens
              >= prev[1].total_cache_creation_tokens
        /\ session.total_cache_read_tokens >= prev[1].total_cache_read_tokens

\* A re-parse after an assistant line was appended to a file whose earlier
\* parse had already counted tokens: the totals grew.
C4_Witness ==
    /\ pc = "returned" /\ ~io_error /\ prev # <<>>
    /\ end_len > prev_len
    /\ \A k \in 1..Len(AppendedSincePrev) : ValidRecord(AppendedSincePrev[k])
    /\ prev[1].total_input_tokens > 0
    /\ session.total_input_tokens > prev[1].total_input_tokens
    /\ session.total_cache_read_tokens > prev[1].total_cache_read_tokens

----------------------------------------------------------------------------
(* Properties of _get_model_family (SpecFamily). *)

IsPrefixOf(p, s) == \E k \in 0..Len(s) : SubSeq(s, 1, k) = p

\* The known family names the identifier starts with.
KnownPrefixes(id) == {f \in Families : IsPrefixOf(f, id)}

\* C5: for an identifier that starts with a known family name, the result
\* is the longest known family name the identifier starts with.
C5_LongestKnownPrefix ==
    (family # NoValue /\ KnownPrefixes(model_id) # {}) =>
        /\ family \in KnownPrefixes(model_id)
        /\ \A g \in KnownPrefixes(model_id) : Len(g) <= Len(family)

C5_Witness ==
    /\ model_id = "claude-3-5-sonnet-5-20250929"
    /\ family = "claude-3-5-sonnet"

\* C6 as stated: the identifier is returned unchanged exactly when no
\* known family name is a prefix of it.
C6_UnchangedIffNoPrefix ==
    family # NoValue => (family = model_id <=> KnownPrefixes(model_id) = {})

\* C6, amended: the call returns a family name or the identifier; it
\* returns the identifier unchanged exactly when no known family name is a
\* prefix of it or the identifier is itself a known family name; and the
\* strip step yields no family that the prefix step does not yield.
C6_UnchangedIffNoPrefixOrExact ==
    /\ family # NoValue =>
          /\ family \in Families \cup {model_id}
          /\ family = model_id <=>
                (KnownPrefixes(model_id) = {} \/ model_id \in Families)
    /\ StripStep(model_id) \in Families =>
          PrefixStep(model_id) = StripStep(model_id)

\* The empty identifier is resolved to itself.
C6_Witness == model_id = "" /\ family = ""

----------------------------------------------------------------------------
(* Properties of the computed properties of SessionData (SpecMetrics). *)

\* C7: context_usage_pct lies in [0, 100]; with a positive window it is
\* latest_context_used / context_window_size * 100 capped at 100; with a
\* window of 0 it is 0.
C7_ContextPctBounded ==
    pct # <<>> =>
        LET n == pct[1][1]
            d == pct[1][2]
            used == sd.latest_context_used
            w == sd.context_window_size
        IN  /\ d > 0
            /\ 0 <= n /\ n <= 100 * d
            /\ (w > 0 /\ used <= w) => n * w = used * 100 * d
            /\ (w > 0 /\ used >= w) => n = 100 * d
            /\ w = 0 => n = 0

\* A context fill above the window reads as 100.
C7_Witness ==
    /\ sd.latest_context_used = 300000
    /\ sd.context_window_size = 200000
    /\ pct = << <<100, 1>> >>

\* The price (in cents per million tokens) of each category for a model:
\* the tables' entry for the known family the model starts with, else the
\* defaults 3.0, 15.0, 3.75 and 0.30.
PricesOf(model) ==
    IF KnownPrefixes(model) = {} THEN <<300, 1500, 375, 30>>
    ELSE LET f == CHOOSE f \in KnownPrefixes(model) : TRUE
         IN  MODEL_PRICING[f] \o CACHE_PRICING[f]

\* C8: estimated_cost_usd is the sum over the four categories of
\* tokens / 1,000,000 times the category's price for the resolved family,
\* the defaults standing in for an unknown family or an empty model; with
\* an unknown family and a positive token total it is not zero; one million
\* input and one million output tokens on claude-sonnet-4 cost 18 dollars.
C8_CostIsPricedSum ==
    cost # <<>> =>
        LET p == PricesOf(sd.model)
        IN  /\ cost[1] =
                  MoneyPlus(
                      MoneyPlus(MoneyTimes(sd.total_input_tokens, p[1]),
                                MoneyTimes(sd.total_output_tokens, p[2])),
                      MoneyPlus(MoneyTimes(sd.total_cache_creation_tokens, p[3]),
                                MoneyTimes(sd.total_cache_read_tokens, p[4])))
            /\ ( /\ KnownPrefixes(sd.model) = {}
                 /\ sd.total_input_tokens + sd.total_output_tokens
                      + sd.total_cache_creation_tokens
                      + sd.total_cache_read_tokens > 0 )
               => cost[1] # <<0, 0>>
            /\ ( /\ IsPrefixOf("claude-sonnet-4", sd.model)
                 /\ sd.total_input_tokens = 1000000
                 /\ sd.total_output_tokens = 1000000
                 /\ sd.total_cache_creation_tokens = 0
                 /\ sd.total_cache_read_tokens = 0 )
               => cost[1] = <<1800, 0>>

\* The cost of one cache-read token of a session without a model.
C8_Witness ==
    /\ sd.model = ""
    /\ sd.total_input_tokens = 0 /\ sd.total_output_tokens = 0
    /\ sd.total_cache_creation_tokens = 0 /\ sd.total_cache_read_tokens = 1
    /\ cost = << <<0, 30>> >>

----------------------------------------------------------------------------
(* summarize_usage, lines 453-474, one loop iteration per step.  Clock     *)
(* values and modification times are whole seconds.                        *)

MaxSessions == 3

ActiveWindow == 3600

AddSession_active_inclusive(sm, s, t) ==
    [sm EXCEPT
        !.total_input_tokens = @ + s.total_input_tokens,
        !.total_output_tokens = @ + s.total_output_tokens,
        !.total_cache_creation_tokens = @ + s.total_cache_creation_tokens,
        !.total_cache_read_tokens = @ + s.total_cache_read_tokens,
        !.total_cost_usd = MoneyPlus(@, estimated_cost_usd(s)),
        !.total_messages = @ + s.message_count,
        !.models_used = IF s.model # "" THEN @ \cup {s.model} ELSE @,
        !.active_sessions =
            IF s.file_mtime # 0 /\ (t - s.file_mtime) <= ActiveWindow
            THEN @ + 1 ELSE @]

AddSession_count_one(sm, s, t) ==
    [sm EXCEPT
        !.total_input_tokens = @ + s.total_input_tokens,
        !.total_output_tokens = @ + s.total_output_tokens,
        !.total_cache_creation_tokens = @ + s.total_cache_creation_tokens,
        !.total_cache_read_tokens = @ + s.total_cache_read_tokens,
        !.total_cost_usd = MoneyPlus(@, estimated_cost_usd(s)),
        !.total_messages = @ + 1,
        !.models_used = IF s.model # "" THEN @ \cup {s.model} ELSE @,
        !.active_sessions =
            IF s.file_mtime # 0 /\ (t - s.file_mtime) < ActiveWindow
            THEN @ + 1 ELSE @]

AddSession_keep_last_model(sm, s, t) ==
    [sm EXCEPT
        !.total_input_tokens = @ + s.total_input_tokens,
        !.total_output_tokens = @ + s.total_output_tokens,
        !.total_cache_creation_tokens = @ + s.total_cache_creation_tokens,
        !.total_cache_read_tokens = @ + s.total_cache_read_tokens,
        !.total_cost_usd = MoneyPlus(@, estimated_cost_usd(s)),
        !.total_messages = @ + s.message_count,
        !.models_used = IF s.model # "" THEN {s.model} ELSE @,
        !.active_sessions =
            IF s.file_mtime # 0 /\ (t - s.file_mtime) < ActiveWindow
            THEN @ + 1 ELSE @]

\* Lines 460-472: the body of the loop for one session, t being `now`.
AddSession(sm, s, t) ==
    [sm EXCEPT
        !.total_input_tokens = @ + s.total_input_tokens,
        !.total_output_tokens = @ + s.total_output_tokens,
        !.total_cache_creation_tokens = @ + s.total_cache_creation_tokens,
        !.total_cache_read_tokens = @ + s.total_cache_read_tokens,
        !.total_cost_usd = MoneyPlus(@, estimated_cost_usd(s)),
        !.total_messages = @ + s.message_count,
        !.models_used = IF s.model # "" THEN @ \cup {s.model} ELSE @,
        !.active_sessions =
            IF s.file_mtime # 0 /\ (t - s.file_mtime) < ActiveWindow
            THEN @ + 1 ELSE @]

\* Lines 455-458.
SummarizeBegin ==
    /\ spc = "start"
    /\ summary' = [UsageSummary EXCEPT !.total_sessions = Len(sessions)]
    /\ now' \in {10000, 20000}
    /\ si' = 1
    /\ spc' = "loop"
    /\ UNCHANGED sessions
    /\ UNCHANGED notSummary

SummarizeStep ==
    /\ spc = "loop"
    /\ si <= Len(sessions)
    /\ summary' = AddSession(summary, sessions[si], now)
    /\ si' = si + 1
    /\ UNCHANGED <<sessions, now, spc>>
    /\ UNCHANGED notSummary

\* Line 474.
SummarizeReturn ==
    /\ spc = "loop"
    /\ si > Len(sessions)
    /\ spc' = "done"
    /\ UNCHANGED <<sessions, summary, now, si>>
    /\ UNCHANGED notSummary

\* The sessions summarised: without a model, with a family's name and
\* with a versioned model; without and with tokens and messages; with no
\* modification time, one 3599 s before the earlier clock value and one
\* that is later than the earlier clock value and 3600 s before the later.
SessionSamples ==
    { [SessionData(SessionPath, 0, t) EXCEPT
            !.model = m,
            !.total_input_tokens = u[1],
            !.total_output_tokens = u[2],
            !.total_cache_creation_tokens = u[3],
            !.total_cache_read_tokens = u[4],
            !.message_count = u[5]] :
        m \in {"", "claude-sonnet-4", "claude-opus-4-6"},
        u \in {<<100, 50, 0, 0, 5>>, <<200, 100, 7, 3, 3>>},
        t \in {0, 6401, 16400} }

RECURSIVE ListsOf(_, _)
ListsOf(S, n) ==
    IF n = 0 THEN {<<>>}
    ELSE LET shorter == ListsOf(S, n - 1)
         IN  shorter \cup {Append(l, x) : l \in {q \in shorter : Len(q) = n - 1},
                                           x \in S}

SummaryStart ==
    /\ sessions \in ListsOf(SessionSamples, MaxSessions)
    /\ summary = UsageSummary
    /\ now = 0
    /\ si = 1
    /\ spc = "start"

InitSummary == SummaryStart /\ FamilyIdle /\ ParseIdle /\ MetricIdle /\ CycleIdle
    /\ ClientIdle

SummaryNext == SummarizeBegin \/ SummarizeStep \/ SummarizeReturn

SpecSummary == InitSummary /\ [][SummaryNext]_vars

----------------------------------------------------------------------------
(* Properties of summarize_usage (SpecSummary). *)

\* The sessions the loop has gone through.
Summarised == SubSeq(sessions, 1, si - 1)

\* C9: total_sessions is the length of the list, and each of the four
\* token totals and the message total is the sum of that field over the
\* sessions the loop has gone through, which at the return are all the
\* sessions of the list, each once.
C9_TotalsAreSums ==
    spc \in {"loop", "done"} =>
        /\ summary.total_sessions = Len(sessions)
        /\ summary.total_input_tokens
              = SumOver(Summarised, LAMBDA s : s.total_input_tokens)
        /\ summary.total_output_tokens
              = SumOver(Summarised, LAMBDA s : s.total_output_tokens)
        /\ summary.total_cache_creation_tokens
              = SumOver(Summarised, LAMBDA s : s.total_cache_creation_tokens)
        /\ summary.total_cache_read_tokens
              = SumOver(Summarised, LAMBDA s : s.total_cache_read_tokens)
        /\ summary.total_messages
              = SumOver(Summarised, LAMBDA s : s.message_count)
        /\ spc = "done" => si - 1 = Len(sessions)

\* The summary of a list that holds the same session twice and another.
C9_Witness ==
    /\ spc = "done"
    /\ Len(sessions) = 3
    /\ sessions[1] = sessions[2]
    /\ sessions[1].total_input_tokens = 100
    /\ sessions[3].total_input_tokens = 200
    /\ summary.total_input_tokens = 400
    /\ summary.total_messages = 13

\* The model strings of the sessions of the list.
ModelStrings == {sessions[k].model : k \in 1..Len(sessions)}

\* C10 as stated: the size of models_used is the number of distinct model
\* strings of the sessions of the list.
C10_ModelsUsedCountsAllStrings ==
    spc = "done" =>
        Cardinality(summary.models_used) = Cardinality(ModelStrings)

\* C10, amended: models_used is the set of the distinct non-empty model
\* strings of the sessions of the list, so its size is their number,
\* however many sessions repeat a model.
C10_ModelsUsedCountsNonEmptyStrings ==
    spc = "done" =>
        /\ summary.models_used = ModelStrings \ {""}
        /\ Cardinality(summary.models_used) = Cardinality(ModelStrings \ {""})

\* Two sessions with the same model and one with another: two models.
C10_Witness ==
    /\ spc = "done"
    /\ Len(sessions) = 3
    /\ sessions[1].model = "claude-sonnet-4"
    /\ sessions[2].model = "claude-sonnet-4"
    /\ sessions[3].model = "claude-opus-4-6"
    /\ Cardinality(summary.models_used) = 2

----------------------------------------------------------------------------
(* The refresh cycle: collect_all_sessions (lines 256-263) calls           *)
(* discover_sessions (156-174) and then parse_session for every path,      *)
(* while other processes remove files.  A removed file stays readable      *)
(* through a handle opened before the removal.  The loop of parse_session  *)
(* is the one of the parse harness (ReadLine, EndOfFile, ReadError), on    *)
(* the content of the opened file.                                         *)

EndsWith(s, suf) ==
    Len(suf) <= Len(s) /\ SubSeq(s, Len(s) - Len(suf) + 1, Len(s)) = suf

\* sub in s
Contains(s, sub) ==
    \E i \in 1..(Len(s) - Len(sub) + 1) : SubSeq(s, i, i + Len(sub) - 1) = sub

IsUnder(path, dir) ==
    Len(path) > Len(dir) /\ SubSeq(path, 1, Len(dir)) = dir

\* Lines 166-170: what projects_dir.rglob("*.jsonl") yields and the loop keeps.
Discoverable(root, path) ==
    /\ IsUnder(path, root \o <<"projects">>)
    /\ EndsWith(path[Len(path)], ".jsonl")
    /\ ~Contains(PathStr(path), "subagents")

\* sorted is a sequence of <<key, path>> in descending key order; the item
\* goes behind every element whose key is not smaller (the sort is stable).
RECURSIVE InsertDesc(_, _)
InsertDesc(sorted, item) ==
    IF Len(sorted) = 0 THEN <<item>>
    ELSE IF Head(sorted)[1] >= item[1]
         THEN <<Head(sorted)>> \o InsertDesc(Tail(sorted), item)
         ELSE <<item>> \o sorted

RECURSIVE SortDesc(_)
SortDesc(pairs) ==
    IF Len(pairs) = 0 THEN <<>>
    ELSE InsertDesc(SortDesc(SubSeq(pairs, 1, Len(pairs) - 1)),
                    pairs[Len(pairs)])

SortedByKey_unsorted(paths, ks) == paths

\* Line 173: sessions.sort(key=..., reverse=True), the keys being computed.
SortedByKey(paths, ks) ==
    LET sorted == SortDesc([k \in 1..Len(paths) |-> <<ks[k], paths[k]>>])
    IN  [k \in 1..Len(paths) |-> sorted[k][2]]

OrdersOf(S) ==
    {q \in [1..Cardinality(S) -> S] : \A x \in S : \E k \in DOMAIN q : q[k] = x}

\* Lines 158-170: the files found, in the order the directory walk yields.
Discover ==
    /\ cpc = "start"
    /\ IF projects_dir
       THEN /\ found' \in OrdersOf({p \in DOMAIN fs :
                                fs[p].exists /\ Discoverable(claude_dir, p)})
            /\ cpc' = "sort"
       ELSE /\ found' = <<>>
            /\ cpc' = "next"
    /\ keys' = <<>>
    /\ ci' = 1
    /\ UNCHANGED <<claude_dir, projects_dir, fs, results, error, parseVars>>
    /\ UNCHANGED notCycle

\* Line 173: the key of one element, p.stat().st_mtime.
SortKey ==
    /\ cpc = "sort"
    /\ ci <= Len(found)
    /\ IF fs[found[ci]].exists
       THEN /\ keys' = Append(keys, fs[found[ci]].mtime)
            /\ ci' = ci + 1
            /\ UNCHANGED <<cpc, error>>
       ELSE /\ cpc' = "raised"
            /\ error' = "FileNotFoundError"
            /\ UNCHANGED <<keys, ci>>
    /\ UNCHANGED <<claude_dir, projects_dir, fs, found, results, parseVars>>
    /\ UNCHANGED notCycle

\* Lines 173-174 and 258-259.
SortDone ==
    /\ cpc = "sort"
    /\ ci > Len(found)
    /\ found' = SortedByKey(found, keys)
    /\ ci' = 1
    /\ cpc' = "next"
    /\ UNCHANGED <<claude_dir, projects_dir, fs, keys, results, error, parseVars>>
    /\ UNCHANGED notCycle

\* Lines 179-186: parse_session starts; jsonl_path.stat().st_size.
StatSize ==
    /\ cpc = "next"
    /\ ci <= Len(found)
    /\ IF fs[found[ci]].exists
       THEN /\ session' = SessionData(found[ci], Len(fs[found[ci]].content), 0)
            /\ cpc' = "stat_mtime"
            /\ UNCHANGED error
       ELSE /\ cpc' = "raised"
            /\ error' = "FileNotFoundError"
            /\ UNCHANGED session
    /\ UNCHANGED <<claude_dir, projects_dir, fs, found, keys, ci, results>>
    /\ UNCHANGED <<file, pos, decoded, pc, prev, prev_len, end_len, io_error>>
    /\ UNCHANGED notCycle

\* Line 187: jsonl_path.stat().st_mtime.
StatMtime ==
    /\ cpc = "stat_mtime"
    /\ IF fs[found[ci]].exists
       THEN /\ session' = [session EXCEPT !.file_mtime = fs[found[ci]].mtime]
            /\ cpc' = "open"
            /\ UNCHANGED error
       ELSE /\ cpc' = "raised"
            /\ error' = "FileNotFoundError"
            /\ UNCHANGED session
    /\ UNCHANGED <<claude_dir, projects_dir, fs, found, keys, ci, results>>
    /\ UNCHANGED <<file, pos, decoded, pc, prev, prev_len, end_len, io_error>>
    /\ UNCHANGED notCycle

\* Line 191: open(); the OSError of a missing or unreadable file is caught
\* at line 250 and the empty session is returned.
CycleOpen ==
    /\ cpc = "open"
    /\ IF fs[found[ci]].exists /\ fs[found[ci]].readable
       THEN /\ file' = fs[found[ci]].content
            /\ pc' = "reading"
            /\ io_error' = FALSE
       ELSE /\ file' = <<>>
            /\ pc' = "returned"
            /\ io_error' = TRUE
    /\ pos' = 0
    /\ decoded' = 0
    /\ end_len' = 0
    /\ cpc' = "read"
    /\ UNCHANGED <<claude_dir, projects_dir, fs, found, keys, ci, results, error>>
    /\ UNCHANGED <<session, prev, prev_len>>
    /\ UNCHANGED notCycle

\* Lines 261-262: the session parse_session returned is appended.
Collect ==
    /\ cpc = "read"
    /\ pc = "returned"
    /\ results' = Append(results, session)
    /\ ci' = ci + 1
    /\ cpc' = "next"
    /\ pc' = "idle"
    /\ UNCHANGED <<claude_dir, projects_dir, fs, found, keys, error>>
    /\ UNCHANGED <<file, pos, decoded, session, prev, prev_len, end_len, io_error>>
    /\ UNCHANGED notCycle

\* The exception parse_session raised leaves collect_all_sessions: that of
\* the read that could not be decoded, which raised with no decoded line
\* left to hand out (pos = decoded), or that of the line the loop could not
\* work with.
Propagate ==
    /\ cpc = "read"
    /\ pc = "raised"
    /\ cpc' = "raised"
    /\ error' = IF pos = decoded THEN "UnicodeDecodeError"
                ELSE Raised(file[pos + 1])
    /\ UNCHANGED <<claude_dir, projects_dir, fs, found, keys, ci, results, parseVars>>
    /\ UNCHANGED notCycle

\* Line 263.
CollectReturn ==
    /\ cpc = "next"
    /\ ci > Len(found)
    /\ cpc' = "done"
    /\ UNCHANGED <<claude_dir, projects_dir, fs, found, keys, ci, results, error, parseVars>>
    /\ UNCHANGED notCycle

\* Another process removes a file while the cycle runs.
RemoveFile ==
    /\ cpc \notin {"start", "done", "raised"}
    /\ \E p \in DOMAIN fs :
          /\ fs[p].exists
          /\ fs' = [fs EXCEPT ![p].exists = FALSE]
    /\ UNCHANGED <<claude_dir, projects_dir, cpc, found, keys, ci, results, error, parseVars>>
    /\ UNCHANGED notCycle

\* The files of the cycle's directory: two session files of one project.
CyclePaths ==
    { ClaudeDir \o <<"projects", "-home-user-testproject", "session-abc.jsonl">>,
      ClaudeDir \o <<"projects", "-home-user-testproject", "session-def.jsonl">> }

ContentSamples ==
    { << UserLine("2025-01-01T00:00:00Z"),
         AssistantLine("2025-01-01T00:00:05Z", "claude-sonnet-4-5-20250929",
                       Usage(1000, 500, 200, 100)) >>,
      << MalformedLine,
         AssistantLine("2025-01-01T00:00:09Z", "", Usage(7, 0, 0, 300)) >>,
      << NonObjectLine >>,
      << NonObjectLine, UndecodableLine >>,
      << NonObjectLine, [UndecodableLine EXCEPT !.fault = "cut"] >>,
      << UserLine("2025-01-01T00:00:00Z"), UndecodableLine >>,
      << UserLine("2025-01-01T00:00:00Z"),
         [UndecodableLine EXCEPT !.fault = "cut"] >>,
      << UserLine("2025-01-01T00:00:00Z"),
         BadMessageLine("2025-01-01T00:00:05Z", "count") >>,
      << UserLine("2025-01-01T00:00:00Z"), UnloadableLine("overdeep") >>,
      << UnloadableLine("overlong") >> }

NoFile == [exists |-> FALSE, readable |-> TRUE, mtime |-> 1, content |-> <<>>]

FileStates ==
    {NoFile} \cup [exists : {TRUE}, readable : BOOLEAN, mtime : {1, 2},
                   content : ContentSamples]

CycleStart ==
    /\ claude_dir = ClaudeDir
    /\ projects_dir \in BOOLEAN
    /\ fs \in [CyclePaths -> FileStates]
    /\ ~projects_dir => \A p \in CyclePaths : fs[p] = NoFile
    /\ cpc = "start"
    /\ found = <<>>
    /\ keys = <<>>
    /\ ci = 1
    /\ results = <<>>
    /\ error = ""

InitCycle == CycleStart /\ ParseInit /\ FamilyIdle /\ MetricIdle /\ SummaryIdle
    /\ ClientIdle

CycleNext ==
    \/ Discover
    \/ SortKey
    \/ SortDone
    \/ StatSize
    \/ StatMtime
    \/ CycleOpen
    \/ ReadLine
    \/ EndOfFile
    \/ ReadError
    \/ Collect
    \/ Propagate
    \/ CollectReturn
    \/ RemoveFile

SpecCycle == InitCycle /\ [][CycleNext]_vars

----------------------------------------------------------------------------
(* Properties of the refresh cycle (SpecCycle). *)

\* C3: a file that is unreadable, or that another process removes while
\* the cycle runs, never makes the cycle raise: no cycle ends on the
\* FileNotFoundError of a removed file.
C3_RemovedFileNeverRaises ==
    ~(cpc = "raised" /\ error = "FileNotFoundError")

----------------------------------------------------------------------------
(* discover_sessions (lines 156-174) over a directory tree at rest.  The   *)
(* call returns when the cycle's state is "next": after the sort, or at    *)
(* line 163 when <claude_dir>/projects does not exist.                     *)

\* The data directories of the trees: the one of the parse harness and one
\* whose own path contains the text "subagents".
Roots == {ClaudeDir, <<"", "srv", "subagents-box", ".claude">>}

\* The files of a tree, relative to its data directory.
TreePaths ==
    { <<"projects", "myproject", "session1.jsonl">>,
      <<"projects", "myproject", "session2.jsonl">>,
      <<"projects", "other", "deep", "session3.jsonl">>,
      <<"projects", "myproject", "subagents", "sub-session.jsonl">>,
      <<"projects", "-home-user-subagents-demo", "session4.jsonl">>,
      <<"projects", "myproject", "subagents-notes.jsonl">>,
      <<"projects", "myproject", "notes.txt">>,
      <<"todos", "todo.jsonl">> }

TreeFileStates ==
    {NoFile} \cup [exists : {TRUE}, readable : {TRUE}, mtime : {1, 2},
                   content : {<<>>}]

DiscoverStart ==
    /\ claude_dir \in Roots
    /\ projects_dir \in BOOLEAN
    /\ fs \in [{claude_dir \o r : r \in TreePaths} -> TreeFileStates]
    /\ \A p \in DOMAIN fs :
          fs[p].exists /\ IsUnder(p, claude_dir \o <<"projects">>)
              => projects_dir
    /\ cpc = "start"
    /\ found = <<>>
    /\ keys = <<>>
    /\ ci = 1
    /\ results = <<>>
    /\ error = ""

InitDiscover ==
    DiscoverStart /\ ParseInit /\ FamilyIdle /\ MetricIdle /\ SummaryIdle
    /\ ClientIdle

DiscoverNext ==
    \/ Discover
    \/ SortKey
    \/ SortDone

SpecDiscover == InitDiscover /\ [][DiscoverNext]_vars

----------------------------------------------------------------------------
(* Properties of discover_sessions (SpecDiscover). *)

DiscoverReturned == cpc = "next"

\* The file lies under a directory named "subagents" below the data
\* directory.
UnderSubagentsSegment(root, path) ==
    \E k \in (Len(root) + 1)..(Len(path) - 1) : path[k] = "subagents"

\* C11: discover_sessions returns exactly the *.jsonl files under
\* <root>/projects that do not lie under a path segment named subagents;
\* a file whose root directory, project directory name or file name merely
\* contains the text subagents is not excluded.
C11_ExcludesExactlySubagentSegments ==
    DiscoverReturned =>
        {found[k] : k \in 1..Len(found)} =
            {p \in DOMAIN fs :
                /\ fs[p].exists
                /\ IsUnder(p, claude_dir \o <<"projects">>)
                /\ EndsWith(p[Len(p)], ".jsonl")
                /\ ~UnderSubagentsSegment(claude_dir, p)}

\* C12: the list discover_sessions returns is ordered by modification time
\* descending (each element's mtime is >= that of the next), and a data
\* directory without a projects subdirectory yields the empty list and no
\* error.
C12_NewestFirstOrEmpty ==
    DiscoverReturned =>
        /\ \A k \in 1..(Len(found) - 1) :
              fs[found[k]].mtime >= fs[found[k + 1]].mtime
        /\ ~projects_dir => found = <<>> /\ error = ""

C12_Witness ==
    /\ DiscoverReturned
    /\ Len(found) = 3
    /\ fs[found[1]].mtime = 2
    /\ fs[found[3]].mtime = 1
    /\ found[1] = claude_dir \o <<"projects", "other", "deep", "session3.jsonl">>

----------------------------------------------------------------------------
(* The plan-usage client, collector.py lines 283-427.  A value of type     *)
(* `PlanLimit | None` is <<>> for None and <<limit>> otherwise.            *)

\* The dataclass PlanLimit, lines 283-288.
PlanLimit(label, utilization, resets) ==
    [label |-> label, utilization |-> utilization, resets_at |-> resets]

\* The dataclass PlanUsage, lines 291-298.
PlanUsage(five_hour, seven_day, seven_day_sonnet, seven_day_opus, err) ==
    [five_hour |-> five_hour, seven_day |-> seven_day,
     seven_day_sonnet |-> seven_day_sonnet, seven_day_opus |-> seven_day_opus,
     error |-> err]

\* The four quota windows of a PlanUsage.
Windows == {"five_hour", "seven_day", "seven_day_sonnet", "seven_day_opus"}

\* PlanUsage.available, lines 300-303.
available(p) == p.five_hour # <<>> \/ p.seven_day # <<>>

\* The property `available` is read on a PlanUsage.
ReadAvailable ==
    /\ plan # <<>>
    /\ avail = <<>>
    /\ avail' = <<available(plan[1])>>
    /\ UNCHANGED <<env, ppc, token, requests, response, plan>>
    /\ UNCHANGED notPlan

\* PlanUsage objects: every window unset or holding one of two limits, with
\* and without an error text.
LimitSamples ==
    { <<>>,
      <<PlanLimit("limit", 42, "2025-01-01T05:00:00+00:00")>>,
      <<PlanLimit("limit", 100, "")>> }

PlanUsageSamples ==
    { PlanUsage(a, b, c, d, err) :
        a \in LimitSamples, b \in LimitSamples, c \in LimitSamples,
        d \in LimitSamples, err \in {"", "HTTP Error 401: Unauthorized"} }

AvailableStart ==
    /\ env = <<>>
    /\ ppc = "start"
    /\ token = NoValue
    /\ requests = 0
    /\ response = <<>>
    /\ plan \in {<<p>> : p \in PlanUsageSamples}
    /\ avail = <<>>

InitAvailable ==
    /\ AvailableStart /\ AppIdle /\ FormatIdle /\ ViewIdle
    /\ ParseInit /\ FamilyIdle /\ MetricIdle /\ SummaryIdle /\ CycleIdle

AvailableNext == ReadAvailable

SpecAvailable == InitAvailable /\ [][AvailableNext]_vars

\* C13: PlanUsage.available is true if and only if at least one of the four
\* quota windows is populated, whatever the value of the error field.
C13_AvailableIffAnyWindow ==
    avail # <<>> =>
        (avail[1] <=> \E w \in Windows : plan[1][w] # <<>>)

----------------------------------------------------------------------------
(* _find_oauth_token, lines 306-366: one step per credential source.  An   *)
(* environment variable is NoValue when unset.  A file is <<>> when        *)
(* reading it raises OSError (missing, unreadable, bad descriptor) and     *)
(* <<text>> otherwise.  The characters of a text are those from U+0001 to  *)
(* U+00FF.                                                                 *)

\* The characters str.strip() removes (str.isspace): tab, line feed,
\* vertical tab, form feed, carriage return, U+001C to U+001F, space,
\* U+0085 and U+00A0.
Whitespace ==
    {" ", "\t", "\n", "", "\f", "\r", "", "", "", "", "", " "}

\* The text without the characters of the set at its two ends
RECURSIVE StripChars(_, _)
StripChars(s, chars) ==
    IF Len(s) = 0 THEN s
    ELSE IF SubSeq(s, 1, 1) \in chars THEN StripChars(SubSeq(s, 2, Len(s)), chars)
    ELSE IF SubSeq(s, Len(s), Len(s)) \in chars
         THEN StripChars(SubSeq(s, 1, Len(s) - 1), chars)
    ELSE s

\* str.strip()
Strip(s) == StripChars(s, Whitespace)

\* What reading a file as text gives: <<>> when it fails with an OSError,
\* <<text>>, or NotUtf8 when the bytes of the file are no UTF-8 text and
\* the read raises UnicodeDecodeError, a ValueError.
NotUtf8 == <<"UnicodeDecodeError", "">>

\* What read_text and json.loads make of the credentials file: kind is
\* "undecodable" (UnicodeDecodeError), "malformed" (JSONDecodeError),
\* "overlong" (an integer of more than 4300 digits: ValueError), "overdeep"
\* (arrays or objects nested beyond the recursion limit: RecursionError),
\* "nonobject" (a list, a number, a string, null) or "object";
\* accessToken and access_token hold what creds.get returns, NoValue for
\* None.
Creds(kind, accessToken, access_token) ==
    [kind |-> kind, accessToken |-> accessToken, access_token |-> access_token]

Digits == {"0", "1", "2", "3", "4", "5", "6", "7", "8", "9"}

\* int(s) of a text of digits
RECURSIVE ToInt(_)
ToInt(s) ==
    IF Len(s) = 0 THEN 0
    ELSE ToInt(SubSeq(s, 1, Len(s) - 1)) * 10
         + (CHOOSE d \in 0..9 :
               SubSeq("0123456789", d + 1, d + 1) = SubSeq(s, Len(s), Len(s)))

\* Whether int(s) accepts the text: whitespace around (that of str.strip()
\* without U+001C to U+001F), one sign, and digits with single underscores
\* between them, 4300 digits at most (the limit of the conversion of a
\* text to an integer, leading zeros counted)
IntAccepts(s) ==
    LET t == StripChars(s, Whitespace \ {"", "", "", ""})
        u == IF Len(t) > 0 /\ SubSeq(t, 1, 1) \in {"+", "-"}
             THEN SubSeq(t, 2, Len(t)) ELSE t
    IN  /\ Len(u) > 0
        /\ SubSeq(u, 1, 1) \in Digits
        /\ SubSeq(u, Len(u), Len(u)) \in Digits
        /\ \A i \in 1..Len(u) :
              \/ SubSeq(u, i, i) \in Digits
              \/ SubSeq(u, i, i) = "_" /\ SubSeq(u, i + 1, i + 1) \in Digits
        /\ Cardinality({i \in 1..Len(u) : SubSeq(u, i, i) \in Digits}) <= 4300

\* Line 334, os.dup(fd): whether the number int(s) of a text int() accepts
\* is one a C int holds, from -2^31 to 2^31 - 1; os.dup raises
\* OverflowError on any other.
FitsCInt(s) ==
    LET t == StripChars(s, Whitespace \ {"", "", "", ""})
        negative == StartsWith(t, "-")
        nonzero == {i \in 1..Len(t) : SubSeq(t, i, i) \in Digits \ {"0"}}
        places == IF nonzero = {} THEN {}
                  ELSE {i \in Min(nonzero)..Len(t) : SubSeq(t, i, i) \in Digits}
        RECURSIVE Number(_)
        Number(S) ==
            IF S = {} THEN ""
            ELSE Number(S \ {Max(S)}) \o SubSeq(t, Max(S), Max(S))
        top == ToInt(Number(places \ {Max(places)}))
        unit == ToInt(SubSeq(t, Max(places), Max(places)))
    IN  \/ Cardinality(places) < 10
        \/ /\ Cardinality(places) = 10
           /\ \/ top < 214748364
              \/ top = 214748364 /\ unit <= (IF negative THEN 8 ELSE 7)

\* Python truth of an optional string
Truthy(s) == s # NoValue /\ s # ""

\* Lines 317-320, source 1: the explicit override.
FindExplicit ==
    /\ ppc = "src1"
    /\ IF Truthy(env.explicit)
       THEN token' = Strip(env.explicit) /\ ppc' = "resolved"
       ELSE token' = token /\ ppc' = "src2"
    /\ UNCHANGED <<env, requests, response, plan, avail>>
    /\ UNCHANGED notPlan

\* Lines 322-328, source 2: the file the token-file variable names.  Line
\* 327 catches OSError only.
FindTokenFile ==
    /\ ppc = "src2"
    /\ IF Truthy(env.token_file) /\ env.token_file_text = NotUtf8
       THEN token' = token /\ ppc' = "raised"
       ELSE IF Truthy(env.token_file) /\ env.token_file_text # <<>>
       THEN token' = Strip(env.token_file_text[1]) /\ ppc' = "resolved"
       ELSE token' = token /\ ppc' = "src3"
    /\ UNCHANGED <<env, requests, response, plan, avail>>
    /\ UNCHANGED notPlan

\* Lines 330-340, source 3: the descriptor the fd variable names; int()
\* raises ValueError on a text that is no number, os.dup raises
\* OverflowError on a number no C int holds, and fd_text is <<>> when the
\* number is no descriptor that can be duplicated and read.  Line 338
\* catches ValueError, so also the UnicodeDecodeError of the read, and
\* OSError; it does not catch OverflowError.
FindFd ==
    /\ ppc = "src3"
    /\ IF /\ Truthy(env.fd_str)
          /\ IntAccepts(env.fd_str)
          /\ ~FitsCInt(env.fd_str)
       THEN token' = token /\ ppc' = "raised"
       ELSE
       IF /\ Truthy(env.fd_str)
          /\ IntAccepts(env.fd_str)
          /\ env.fd_text # <<>>
          /\ env.fd_text # NotUtf8
          /\ Strip(env.fd_text[1]) # ""
       THEN token' = Strip(env.fd_text[1]) /\ ppc' = "resolved"
       ELSE token' = token /\ ppc' = "src4"
    /\ UNCHANGED <<env, requests, response, plan, avail>>
    /\ UNCHANGED notPlan

\* Lines 342-351, source 4: the credentials file.  creds.get on a value
\* that is no object raises AttributeError, read_text of bytes that are no
\* UTF-8 raises UnicodeDecodeError, and json.loads raises ValueError on an
\* integer of more than 4300 digits and RecursionError on a nesting too
\* deep; line 349 catches none of them.
FindCreds ==
    /\ ppc = "src4"
    /\ IF /\ env.creds # <<>>
          /\ env.creds[1].kind \in {"nonobject", "undecodable", "overlong", "overdeep"}
       THEN token' = token /\ ppc' = "raised"
       ELSE IF env.creds # <<>> /\ env.creds[1].kind = "object"
       THEN LET c == env.creds[1]
                t == IF Truthy(c.accessToken) THEN c.accessToken
                     ELSE c.access_token
            IN  IF Truthy(t)
                THEN token' = t /\ ppc' = "resolved"
                ELSE token' = token /\ ppc' = "src5"
       ELSE token' = token /\ ppc' = "src5"
    /\ UNCHANGED <<env, requests, response, plan, avail>>
    /\ UNCHANGED notPlan

\* Lines 359-364: the first candidate file, from position i on, whose
\* stripped text is not empty; NoValue when there is none.
RECURSIVE FirstCandidate(_, _)
FirstCandidate(files, i) ==
    IF i > Len(files) THEN NoValue
    ELSE IF files[i] # <<>> /\ Strip(files[i][1]) # ""
         THEN Strip(files[i][1])
         ELSE FirstCandidate(files, i + 1)

\* Lines 359-364: whether the loop, from position i on, reads a file that
\* is no UTF-8 before it finds a token; line 364 catches OSError only.
RECURSIVE CandidateRaises(_, _)
CandidateRaises(files, i) ==
    IF i > Len(files) THEN FALSE
    ELSE IF files[i] = NotUtf8 THEN TRUE
    ELSE IF files[i] # <<>> /\ Strip(files[i][1]) # "" THEN FALSE
    ELSE CandidateRaises(files, i + 1)

\* Lines 353-366, source 5: the fallback token files; None when no source
\* gave a token.
FindCandidates ==
    /\ ppc = "src5"
    /\ IF CandidateRaises(env.candidates, 1)
       THEN token' = token /\ ppc' = "raised"
       ELSE token' = FirstCandidate(env.candidates, 1) /\ ppc' = "resolved"
    /\ UNCHANGED <<env, requests, response, plan, avail>>
    /\ UNCHANGED notPlan

\* Line 371: fetch_plan_usage calls _find_oauth_token.
FetchBegin ==
    /\ ppc = "start"
    /\ ppc' = "src1"
    /\ UNCHANGED <<env, token, requests, response, plan, avail>>
    /\ UNCHANGED notPlan

\* The exception _find_oauth_token raised leaves fetch_plan_usage: the
\* state "raised" is final.

\* The text of the error of lines 373-376, its dash written as "-".
NoTokenError ==
    "No OAuth token found - run from within a Claude Code session, or set CCMONITOR_OAUTH_TOKEN"

\* Lines 372-376: no token, no request.
NoToken ==
    /\ ppc = "resolved"
    /\ ~Truthy(token)
    /\ plan' = <<PlanUsage(<<>>, <<>>, <<>>, <<>>, NoTokenError)>>
    /\ ppc' = "returned"
    /\ UNCHANGED <<env, token, requests, response, avail>>
    /\ UNCHANGED notPlan

\* One quota object of a response body: kind is "absent" (no such key),
\* "falsy" (null, {}, 0), "object" (a non-empty JSON object; utilization
\* and resets_at hold what its .get calls return, the defaults 0 and ""
\* for absent keys) or "nonobject" (a non-empty string, a number, a list).
Quota(kind, utilization, resets) ==
    [kind |-> kind, utilization |-> utilization, resets_at |-> resets]

AbsentQuota == Quota("absent", 0, "")

\* What urlopen, resp.read and json.loads give (lines 391-393): kind is the
\* exception raised, or "json" with the decoded body; the body is an
\* object of four quota values unless is_object is FALSE.
Response(kind, is_object, five_hour, seven_day, seven_day_sonnet, seven_day_opus) ==
    [kind |-> kind, is_object |-> is_object, five_hour |-> five_hour,
     seven_day |-> seven_day, seven_day_sonnet |-> seven_day_sonnet,
     seven_day_opus |-> seven_day_opus]

Failure(kind) ==
    Response(kind, FALSE, AbsentQuota, AbsentQuota, AbsentQuota, AbsentQuota)

\* str(e) of a caught exception.
ErrorText(kind) ==
    CASE kind = "URLError" -> "<urlopen error [Errno 111] Connection refused>"
      [] kind = "HTTPError" -> "HTTP Error 401: Unauthorized"
      [] kind = "OSError" -> "The read operation timed out"
      [] kind = "JSONDecodeError" -> "Expecting value: line 1 column 1 (char 0)"

\* The digits of base 16.
HexDigits ==
    Digits \cup {"a", "b", "c", "d", "e", "f", "A", "B", "C", "D", "E", "F"}

\* ipaddress.IPv6Address(s) accepts the text: eight groups of one to four
\* hexadecimal digits between colons, one run of empty groups written
\* "::", the last two groups possibly written as an IPv4 address of four
\* decimal octets, and possibly a scope after "%".
IsIPv6(s) ==
    LET Has(t, c) == \E i \in 1..Len(t) : SubSeq(t, i, i) = c
        SplitOn(t, c) ==
            LET P == {i \in 1..Len(t) : SubSeq(t, i, i) = c}
                Cut(k) == IF k = 0 THEN 0
                          ELSE IF k > Cardinality(P) THEN Len(t) + 1
                          ELSE CHOOSE i \in P : Cardinality({j \in P : j < i}) = k - 1
            IN  [k \in 1..(Cardinality(P) + 1) |->
                    SubSeq(t, Cut(k - 1) + 1, Cut(k) - 1)]
        Hextet(x) ==
            /\ Len(x) \in 1..4
            /\ \A i \in 1..Len(x) : SubSeq(x, i, i) \in HexDigits
        Octet(x) ==
            /\ Len(x) \in 1..3
            /\ \A i \in 1..Len(x) : SubSeq(x, i, i) \in Digits
            /\ x = "0" \/ SubSeq(x, 1, 1) # "0"
            /\ ToInt(x) <= 255
        IsIPv4(t) ==
            LET o == SplitOn(t, ".")
            IN  Len(o) = 4 /\ \A k \in 1..4 : Octet(o[k])
        percents == {i \in 1..Len(s) : SubSeq(s, i, i) = "%"}
        addr == IF percents = {} THEN s ELSE SubSeq(s, 1, Min(percents) - 1)
        raw == SplitOn(addr, ":")
        tail == raw[Len(raw)]
        parts == IF Has(tail, ".")
                 THEN SubSeq(raw, 1, Len(raw) - 1) \o <<"0", "0">> ELSE raw
        n == Len(parts)
        skips == {i \in 2..(n - 1) : parts[i] = ""}
    IN  /\ ~Has(s, "/")
        /\ percents # {} => Min(percents) < Len(s) /\ Cardinality(percents) = 1
        /\ Len(raw) >= 3
        /\ Has(tail, ".") => IsIPv4(tail)
        /\ n <= 9
        /\ Cardinality(skips) <= 1
        /\ IF skips = {}
           THEN n = 8 /\ \A k \in 1..8 : Hextet(parts[k])
           ELSE LET k == CHOOSE i \in skips : TRUE
                    hi == IF parts[1] = "" THEN k - 2 ELSE k - 1
                    lo == IF parts[n] = "" THEN n - k - 1 ELSE n - k
                IN  /\ parts[1] = "" => hi = 0
                    /\ parts[n] = "" => lo = 0
                    /\ hi + lo <= 7
                    /\ \A j \in 1..hi : Hextet(parts[j])
                    /\ \A j \in (n - lo + 1)..n : Hextet(parts[j])

\* Lines 381-389: whether urllib.request.Request(url, headers=...) accepts
\* the URL; it raises ValueError on any other.  The text is stripped and
\* freed of "<...>" and of a leading "URL:", cut at its last "#", and must
\* begin with a scheme: a ":" before which stands at least one character
\* and neither "/" nor ":".  The host is then taken from the URL as
\* urlsplit reads it: controls and spaces at the left and every tab,
\* carriage return and line feed removed, the scheme cut off when it is a
\* letter followed by letters, digits, "+", "-" and ".", the network
\* location being what follows "//" up to the next "/", "?" or "#"; a
\* location must hold "[" and "]" both or neither, and between them an
\* IPv6 address or "v", hexadecimal digits, "." and one more character.
RequestAccepts(url) ==
    LET Find(s, chars, from) ==
            LET P == {i \in from..Len(s) : SubSeq(s, i, i) \in chars}
            IN  IF P = {} THEN 0 ELSE Min(P)
        Angle(s) ==
            IF StartsWith(s, "<") /\ EndsWith(s, ">")
            THEN Strip(SubSeq(s, 2, Len(s) - 1)) ELSE s
        Prefix(s) ==
            IF StartsWith(s, "URL:") THEN Strip(SubSeq(s, 5, Len(s))) ELSE s
        u == Prefix(Angle(Strip(url)))
        hashes == {i \in 1..Len(u) : SubSeq(u, i, i) = "#"}
        cut == IF hashes = {} THEN Len(u) + 1 ELSE Max(hashes)
        path == SubSeq(u, 1, cut - 1)
        fragment == SubSeq(u, cut + 1, Len(u))
        colon == Find(path, {"/", ":"}, 1)
        full == IF fragment # "" THEN path \o "#" \o fragment ELSE path
        controls == ""
        C0 == {SubSeq(controls, i, i) : i \in 1..Len(controls)}
                 \cup {"\t", "\n", "\f", "\r", " "}
        Letters == "abcdefghijklmnopqrstuvwxyzABCDEFGHIJKLMNOPQRSTUVWXYZ"
        Alpha == {SubSeq(Letters, i, i) : i \in 1..Len(Letters)}
        RECURSIVE Clean(_, _)
        Clean(i, started) ==
            IF i > Len(full) THEN ""
            ELSE LET c == SubSeq(full, i, i)
                 IN  IF (~started /\ c \in C0) \/ c \in {"\t", "\r", "\n"}
                     THEN Clean(i + 1, started)
                     ELSE c \o Clean(i + 1, TRUE)
        Location(v) ==
            LET i == Find(v, {":"}, 1)
                schemed == /\ i > 1
                           /\ SubSeq(v, 1, 1) \in Alpha
                           /\ \A j \in 1..(i - 1) :
                                 SubSeq(v, j, j) \in Alpha \cup Digits \cup {"+", "-", "."}
                w == IF schemed THEN SubSeq(v, i + 1, Len(v)) ELSE v
                e == Find(w, {"/", "?", "#"}, 3)
            IN  IF StartsWith(w, "//")
                THEN <<SubSeq(w, 3, IF e = 0 THEN Len(w) ELSE e - 1)>>
                ELSE <<>>
        Future(h) ==
            LET P == {j \in 2..Len(h) : SubSeq(h, j, j) \notin HexDigits}
                dot == IF P = {} THEN 0 ELSE Min(P)
            IN  dot > 2 /\ SubSeq(h, dot, dot) = "." /\ dot < Len(h)
        HostOk(netloc) ==
            LET open == Find(netloc, {"["}, 1)
                close == Find(netloc, {"]"}, open + 1)
                host == SubSeq(netloc, open + 1,
                               IF close = 0 THEN Len(netloc) ELSE close - 1)
            IN  IF open = 0 \/ Find(netloc, {"]"}, 1) = 0
                THEN open = Find(netloc, {"]"}, 1)
                ELSE IF StartsWith(host, "v") THEN Future(host)
                ELSE IsIPv6(host)
        Hosted(loc) == loc = <<>> \/ HostOk(loc[1])
    IN  /\ colon > 1
        /\ SubSeq(path, colon, colon) = ":"
        /\ Eval(Hosted, Eval(Location, Clean(1, FALSE)))

\* Lines 378-395: the URL is made of the base URL, that of the variable
\* ANTHROPIC_BASE_URL when it is set, the request is built (outside the
\* try) and sent, the body read and decoded.  Line 394 catches URLError,
\* HTTPError, JSONDecodeError and OSError: http.client.HTTPException
\* (BadStatusLine, IncompleteRead), the UnicodeDecodeError of a body that
\* is no UTF-8, the ValueError of a header value holding a line feed or of
\* a body holding an integer of more than 4300 digits and the
\* RecursionError of a body nested too deep leave the function.
Request(responses) ==
    /\ ppc = "resolved"
    /\ Truthy(token)
    /\ LET base_url == IF env.base_url = NoValue
                       THEN "https://api.anthropic.com" ELSE env.base_url
           Caught == {"URLError", "HTTPError", "OSError", "JSONDecodeError"}
       IN  IF ~RequestAccepts(base_url \o "/api/oauth/usage")
           THEN /\ ppc' = "raised"
                /\ UNCHANGED <<requests, response, plan>>
           ELSE /\ requests' = requests + 1
                /\ \E r \in responses :
                      /\ response' = <<r>>
                      /\ IF r.kind \in Caught
                         THEN /\ plan' = <<PlanUsage(<<>>, <<>>, <<>>, <<>>,
                                                     ErrorText(r.kind))>>
                              /\ ppc' = "returned"
                         ELSE IF r.kind = "json"
                         THEN plan' = plan /\ ppc' = "decoded"
                         ELSE plan' = plan /\ ppc' = "raised"
    /\ UNCHANGED <<env, token, avail>>
    /\ UNCHANGED notPlan

\* One of the four blocks of lines 399-425: data.get(key) is tested for
\* truth and its fields are read with .get.
Limit(q, label) ==
    IF q.kind = "object"
    THEN <<PlanLimit(label, q.utilization, q.resets_at)>>
    ELSE <<>>

\* Lines 397-427: data.get on a body that is no object, and .get on a
\* quota value that is true but no object, raise AttributeError.
Extract ==
    /\ ppc = "decoded"
    /\ LET data == response[1]
       IN  IF \/ ~data.is_object
              \/ \E w \in Windows : data[w].kind = "nonobject"
           THEN plan' = plan /\ ppc' = "raised"
           ELSE /\ plan' = <<PlanUsage(
                        Limit(data.five_hour, "5-Hour Session"),
                        Limit(data.seven_day, "Weekly (All Models)"),
                        Limit(data.seven_day_sonnet, "Weekly (Sonnet)"),
                        Limit(data.seven_day_opus, "Weekly (Opus)"),
                        "")>>
                /\ ppc' = "returned"
    /\ UNCHANGED <<env, token, requests, response, avail>>
    /\ UNCHANGED notPlan

\* The credential sources of a call and the variable ANTHROPIC_BASE_URL.
Env(explicit, token_file, token_file_text, fd_str, fd_text, creds, candidates, base_url) ==
    [explicit |-> explicit, token_file |-> token_file,
     token_file_text |-> token_file_text, fd_str |-> fd_str,
     fd_text |-> fd_text, creds |-> creds, candidates |-> candidates,
     base_url |-> base_url]

CredsSamples ==
    { <<>>,
      <<Creds("undecodable", NoValue, NoValue)>>,
      <<Creds("malformed", NoValue, NoValue)>>,
      <<Creds("nonobject", NoValue, NoValue)>>,
      <<Creds("overlong", NoValue, NoValue)>>,
      <<Creds("overdeep", NoValue, NoValue)>>,
      <<Creds("object", NoValue, NoValue)>>,
      <<Creds("object", "tok4", NoValue)>>,
      <<Creds("object", "", "tok4b")>> }

\* What a token file may hold, the token being the text given.
FileSamples(tok) == {<<>>, <<"\n">>, <<tok \o "\n">>, NotUtf8}

SomeQuota == Quota("object", 42, "2025-01-01T05:00:00+00:00")
BareQuota == Quota("object", 0, "")
FalsyQuota == Quota("falsy", 0, "")
BadQuota == Quota("nonobject", 0, "")

ResponseSamples ==
    { Failure("URLError"), Failure("HTTPError"), Failure("OSError"),
      Failure("JSONDecodeError"), Failure("HTTPException"),
      Failure("UnicodeDecodeError"), Failure("ValueError"),
      Failure("RecursionError"),
      Failure("json"),
      Response("json", TRUE, AbsentQuota, AbsentQuota, AbsentQuota, AbsentQuota),
      Response("json", TRUE, SomeQuota, BareQuota, AbsentQuota, AbsentQuota),
      Response("json", TRUE, SomeQuota, SomeQuota, SomeQuota, BareQuota),
      Response("json", TRUE, FalsyQuota, AbsentQuota, SomeQuota, AbsentQuota),
      Response("json", TRUE, AbsentQuota, AbsentQuota, AbsentQuota, BadQuota),
      Response("json", TRUE, SomeQuota, BadQuota, AbsentQuota, AbsentQuota) }

\* An unset variable names no file, and only the number 7 names an open
\* descriptor.
PlanStart ==
    /\ \E x \in {NoValue, "", "  ", " tok1 "},
          tf \in {NoValue, "/run/token"},
          tft \in FileSamples("tok2"),
          fd \in {NoValue, "x", "7", " +7\n", "2147483648"},
          fdt \in FileSamples("tok3"),
          c \in CredsSamples,
          cand \in [1..3 -> FileSamples("tok5")],
          base \in {NoValue, "api.example"} :
            /\ tf = NoValue => tft = <<>>
            /\ fd \notin {"7", " +7\n"} => fdt = <<>>
            /\ env = Env(x, tf, tft, fd, fdt, c, cand, base)
    /\ ppc = "start"
    /\ token = NoValue
    /\ requests = 0
    /\ response = <<>>
    /\ plan = <<>>
    /\ avail = <<>>

InitPlan ==
    /\ PlanStart /\ AppIdle /\ FormatIdle /\ ViewIdle
    /\ ParseInit /\ FamilyIdle /\ MetricIdle /\ SummaryIdle /\ CycleIdle

PlanNext ==
    \/ FetchBegin
    \/ FindExplicit
    \/ FindTokenFile
    \/ FindFd
    \/ FindCreds
    \/ FindCandidates
    \/ NoToken
    \/ Request(ResponseSamples)
    \/ Extract

SpecPlan == InitPlan /\ [][PlanNext]_vars

----------------------------------------------------------------------------
(* Properties of the plan-usage client (SpecPlan). *)

\* What each of the five sources yields, in the order of the chain (the
\* fallback files of source 5 one by one): a text, or NoValue when the
\* source is unset, unreadable or holds no token.
Yields(en) ==
    LET TextOf(f) == IF f = <<>> \/ f = NotUtf8 THEN NoValue ELSE Strip(f[1])
    IN
    << IF en.explicit # NoValue THEN Strip(en.explicit) ELSE NoValue,
       IF en.token_file \notin {NoValue, ""}
       THEN TextOf(en.token_file_text) ELSE NoValue,
       IF en.fd_str \notin {NoValue, ""} /\ IntAccepts(en.fd_str)
       THEN TextOf(en.fd_text) ELSE NoValue,
       IF en.creds # <<>> /\ en.creds[1].kind = "object"
       THEN IF en.creds[1].accessToken \notin {NoValue, ""}
            THEN en.creds[1].accessToken ELSE en.creds[1].access_token
       ELSE NoValue >>
    \o [k \in 1..Len(en.candidates) |-> TextOf(en.candidates[k])]

RECURSIVE FirstNonEmpty(_)
FirstNonEmpty(ys) ==
    IF Len(ys) = 0 THEN NoValue
    ELSE IF Head(ys) \notin {NoValue, ""} THEN Head(ys)
    ELSE FirstNonEmpty(Tail(ys))

\* C14: credential discovery returns the token of the first source, in the
\* fixed order of the five, that yields a non-empty token; a source that is
\* set but yields an empty or whitespace-only token does not stop the chain
\* (no token is returned only when no source yields one).
C14_FirstNonEmptySourceWins ==
    ppc = "resolved" =>
        IF FirstNonEmpty(Yields(env)) = NoValue
        THEN token \in {NoValue, ""}
        ELSE token = FirstNonEmpty(Yields(env))

\* C15: when credential discovery yields no token, fetch_plan_usage returns
\* a result with a non-empty error text and no quota window and issues no
\* request; when a token is found it issues exactly one request per call.
C15_NoTokenNoRequest ==
    /\ token \in {NoValue, ""} => requests = 0
    /\ ppc = "returned" /\ token \in {NoValue, ""} =>
          /\ plan[1].error # ""
          /\ \A w \in Windows : plan[1][w] = <<>>
    /\ ppc \in {"decoded", "returned", "raised"} /\ token \notin {NoValue, ""} =>
          requests = 1
    /\ requests <= 1

\* C16: fetch_plan_usage never raises: every transport failure, HTTP error
\* status and undecodable or wrongly shaped response body ends in a
\* returned PlanUsage whose error field is populated.
C16_FetchNeverRaises ==
    /\ ppc # "raised"
    /\ ppc = "returned" /\ response # <<>> /\ response[1].kind # "json" =>
          plan[1].error # ""

----------------------------------------------------------------------------
(* The monitor's background fetches, app.py lines 268-313 and 359-408.     *)
(* _load_data ends by calling _fetch_plan_usage_async, a thread worker of  *)
(* the group "plan_usage" started with exclusive=True: the workers of the  *)
(* group are cancelled and a new worker thread is started.  Cancelling a   *)
(* thread worker marks it cancelled; the thread itself is not interrupted  *)
(* and runs fetch_plan_usage to its end, the function never looking at     *)
(* the mark.  A worker is [by, cancelled, state], state being "fetching"   *)
(* while its thread is inside fetch_plan_usage and "done" afterwards.      *)

MaxWorkers == 5

Worker(by) == [by |-> by, cancelled |-> FALSE, state |-> "fetching"]

\* exclusive=True: every worker of the group is cancelled.
CancelGroup(ws) == [k \in 1..Len(ws) |-> [ws[k] EXCEPT !.cancelled = TRUE]]

\* app.py lines 312-313 and 399-402: the end of _load_data.
FetchPlanUsageAsync(by) ==
    /\ Len(workers) < MaxWorkers
    /\ workers' = Append(CancelGroup(workers), Worker(by))

\* str.lower() on the characters from U+0000 to U+00FF: the letters that
\* have a lowercase form, and that form at the same position.
LowerOf ==
    LET upper == "ABCDEFGHIJKLMNOPQRSTUVWXYZÀÁÂÃÄÅÆÇÈÉÊËÌÍÎÏÐÑÒÓÔÕÖØÙÚÛÜÝÞ"
        lower == "abcdefghijklmnopqrstuvwxyzàáâãäåæçèéêëìíîïðñòóôõöøùúûüýþ"
    IN  [c \in {SubSeq(upper, k, k) : k \in 1..Len(upper)} |->
            LET k == CHOOSE k \in 1..Len(upper) : SubSeq(upper, k, k) = c
            IN  SubSeq(lower, k, k)]

LowerChar(c) == IF c \in DOMAIN LowerOf THEN LowerOf[c] ELSE c

RECURSIVE Lower(_)
Lower(s) ==
    IF s = "" THEN ""
    ELSE LowerChar(SubSeq(s, 1, 1)) \o Lower(SubSeq(s, 2, Len(s)))

\* session_list.py lines 90-95: the sessions the filter lets through.
Shown(s, query) ==
    ~(/\ query # ""
      /\ ~Contains(Lower(s.project_path), query)
      /\ ~Contains(Lower(s.model), query))

RECURSIVE TableRows(_, _)
TableRows(ss, query) ==
    IF ss = <<>> THEN <<>>
    ELSE IF Shown(Head(ss), query)
         THEN <<Head(ss)>> \o TableRows(Tail(ss), query)
         ELSE TableRows(Tail(ss), query)

\* session_list.py lines 75-125, _rebuild_table: the table is cleared (the
\* cursor back on row 0), one row is added per session the filter lets
\* through, and the cursor is moved to selected_idx when that is a row.
RebuildTable(ss, query, selected_idx) ==
    /\ rows' = TableRows(ss, query)
    /\ cursor_row' =
          IF ss # <<>> /\ selected_idx < Len(TableRows(ss, query))
          THEN selected_idx ELSE 0

\* collector.py lines 192-249: the session after the loop went through
\* lines none of which raises.
RECURSIVE Parsed(_, _)
Parsed(s, lines) ==
    IF lines = <<>> THEN s
    ELSE Parsed(IF Skipped(Head(lines)) THEN s ELSE ProcessEntry(s, Head(lines)),
                Tail(lines))

\* What parse_session returns for the file at the path that holds the
\* lines and was written to last at the time mtime (its size counted in
\* lines).
AppSession(path, lines, mtime) ==
    Parsed(SessionData(path, Len(lines), mtime), lines)

\* A request of the user and the answer of the model.
Exchange(model) ==
    <<UserLine("2025-01-01T00:00:00Z"),
      AssistantLine("2025-01-01T00:00:05Z", model, Usage(1000, 500, 200, 100))>>

AlphaOne ==
    AppSession(ClaudeDir \o <<"projects", "-home-user-alpha", "s1.jsonl">>, Exchange("claude-sonnet-4-5"), 100)

BetaOne ==
    AppSession(ClaudeDir \o <<"projects", "-home-user-Beta", "s1.jsonl">>, Exchange("claude-opus-4-6"), 200)

\* A session file that holds the request only: no model yet.
AlphaTwo ==
    AppSession(ClaudeDir \o <<"projects", "-home-user-alpha", "s2.jsonl">>, <<UserLine("2025-01-01T00:00:00Z")>>, 300)

AppSessions == {AlphaOne, BetaOne, AlphaTwo}

\* What collect_all_sessions may return: the sessions of the files that
\* exist at the reload, the file modified last first (line 173).
AppLists ==
    {ss \in UNION {[1..n -> AppSessions] : n \in 0..3} :
        \A i, j \in 1..Len(ss) : i < j => ss[i].file_mtime > ss[j].file_mtime}

\* No session file at all.
NoSessions == {<<>>}

\* app.py lines 279-281: the session_id of the selected session.
SelectedSessionId ==
    IF _sessions # <<>> /\ _selected_idx < Len(_sessions)
    THEN _sessions[_selected_idx + 1].session_id
    ELSE NoValue

\* app.py lines 285-292: the first session with the remembered session_id.
Restored(ss, session_id, idx) ==
    IF Truthy(session_id) /\ \E i \in 1..Len(ss) : ss[i].session_id = session_id
    THEN Min({i \in 1..Len(ss) : ss[i].session_id = session_id}) - 1
    ELSE idx

\* app.py lines 294-295.
Clamped(ss, idx) == IF ss # <<>> THEN Min({idx, Len(ss) - 1}) ELSE idx

\* app.py lines 276-313, _load_data: the list is reloaded, the selection
\* restored and clamped, the table rebuilt and a plan-usage fetch started.
LoadData(by, lists) ==
    \E ss \in lists :
       LET idx == Clamped(ss, Restored(ss, SelectedSessionId, _selected_idx))
       IN  /\ _sessions' = ss
           /\ _selected_idx' = idx
           /\ RebuildTable(ss, _filter_query, idx)
           /\ picked' = <<>>
           /\ FetchPlanUsageAsync(by)
           /\ UNCHANGED <<posted, inbox, applied, _filter_query, row_selected, session_selected>>

\* app.py lines 268-270: on_mount loads the data and starts the timer.
Mount(lists) ==
    /\ ~mounted
    /\ mounted' = TRUE
    /\ LoadData("mount", lists)
    /\ UNCHANGED notApp

\* app.py lines 272-274: a tick of the refresh timer.
RefreshTimer(lists) ==
    /\ mounted
    /\ LoadData("timer", lists)
    /\ UNCHANGED mounted
    /\ UNCHANGED notApp

\* app.py lines 359-361: the key "r".
ActionRefresh(lists) ==
    /\ mounted
    /\ LoadData("refresh", lists)
    /\ UNCHANGED mounted
    /\ UNCHANGED notApp

\* app.py lines 402-403: fetch_plan_usage returns in a worker thread and
\* the result is posted.
FetchReturns ==
    /\ \E k \in 1..Len(workers) :
          /\ workers[k].state = "fetching"
          /\ workers' = [workers EXCEPT ![k].state = "done"]
          /\ inbox' = Append(inbox, k)
    /\ posted' = posted + 1
    /\ UNCHANGED <<mounted, applied, _sessions, _selected_idx, _filter_query, rows, cursor_row, row_selected, session_selected, picked>>
    /\ UNCHANGED notApp

\* app.py lines 405-408: the handler of PlanUsageLoaded gives the result
\* to the panel, messages being handled in the order they were posted.
PlanUsageLoaded ==
    /\ inbox # <<>>
    /\ applied' = Append(applied, Head(inbox))
    /\ inbox' = Tail(inbox)
    /\ UNCHANGED <<mounted, workers, posted, _sessions, _selected_idx, _filter_query, rows, cursor_row, row_selected, session_selected, picked>>
    /\ UNCHANGED notApp

\* The selection of a row reaches the application in two messages, each
\* handled in a step of its own: the table posts DataTable.RowSelected,
\* the list's handler posts SessionSelected, the application's handler
\* takes the index.  Timer ticks, key actions and changes of the filter
\* are handled between them.

\* What the user may type into the filter input.
FilterSamples == {"", "Beta", "sonnet"}

\* session_list.py lines 70-73, on_input_changed.
InputChanged ==
    /\ mounted
    /\ \E value \in FilterSamples :
          /\ _filter_query' = Lower(value)
          /\ RebuildTable(_sessions, Lower(value), 0)
    /\ picked' = <<>>
    /\ UNCHANGED <<mounted, workers, posted, inbox, applied, _sessions, _selected_idx, row_selected, session_selected>>
    /\ UNCHANGED notApp

\* The selections that may await their handlers at one time.
MaxPending == 1

\* session_list.py line 63, cursor_type "row": the user selects a row of
\* the table (a click on it, or Enter with the cursor moved to it); the
\* table posts DataTable.RowSelected with the row of its cursor.  The
\* session the row shows is kept with the event for the properties; the
\* program does not carry it.
SelectCursor ==
    /\ mounted
    /\ Len(row_selected) + Len(session_selected) < MaxPending
    /\ \E row \in 0..(Len(rows) - 1) :
          /\ cursor_row' = row
          /\ row_selected' =
                Append(row_selected, [cursor_row |-> row, shown |-> rows[row + 1]])
    /\ UNCHANGED <<mounted, workers, posted, inbox, applied, _sessions, _selected_idx, _filter_query, rows, session_selected, picked>>
    /\ UNCHANGED notApp

\* session_list.py lines 127-129, on_data_table_row_selected: the list
\* handles the oldest RowSelected event and posts SessionSelected with its
\* row when the row is below the number of sessions.
RowSelected ==
    /\ row_selected # <<>>
    /\ row_selected' = Tail(row_selected)
    /\ LET event == Head(row_selected)
       IN  session_selected' =
              IF event.cursor_row < Len(_sessions)
              THEN Append(session_selected,
                          [index |-> event.cursor_row, shown |-> event.shown])
              ELSE session_selected
    /\ UNCHANGED <<mounted, workers, posted, inbox, applied, _sessions, _selected_idx, _filter_query, rows, cursor_row, picked>>
    /\ UNCHANGED notApp

\* app.py lines 354-357, on_session_list_session_selected: the application
\* handles the oldest SessionSelected message and takes its index as the
\* selected index, before it tests that the index designates a session.
OnSessionListSessionSelected ==
    /\ session_selected # <<>>
    /\ session_selected' = Tail(session_selected)
    /\ _selected_idx' = Head(session_selected).index
    /\ picked' = <<Head(session_selected).shown>>
    /\ UNCHANGED <<mounted, workers, posted, inbox, applied, _sessions, _filter_query, rows, cursor_row, row_selected>>
    /\ UNCHANGED notApp

\* DataTable.move_cursor keeps the cursor among the rows.
MoveCursor(row) ==
    cursor_row' = IF rows = <<>> THEN 0 ELSE Min({row, Len(rows) - 1})

\* app.py lines 363-369.
ActionNextSession ==
    /\ mounted
    /\ _sessions # <<>>
    /\ _selected_idx' = (_selected_idx + 1) % Len(_sessions)
    /\ MoveCursor((_selected_idx + 1) % Len(_sessions))
    /\ picked' = <<>>
    /\ UNCHANGED <<mounted, workers, posted, inbox, applied, _sessions, _filter_query, rows, row_selected, session_selected>>
    /\ UNCHANGED notApp

\* app.py lines 371-377.
ActionPrevSession ==
    /\ mounted
    /\ _sessions # <<>>
    /\ _selected_idx' = (_selected_idx - 1) % Len(_sessions)
    /\ MoveCursor((_selected_idx - 1) % Len(_sessions))
    /\ picked' = <<>>
    /\ UNCHANGED <<mounted, workers, posted, inbox, applied, _sessions, _filter_query, rows, row_selected, session_selected>>
    /\ UNCHANGED notApp

InitApp ==
    /\ AppIdle /\ PlanIdle /\ FormatIdle /\ ViewIdle
    /\ ParseInit /\ FamilyIdle /\ MetricIdle /\ SummaryIdle /\ CycleIdle

\* The fetches of a monitor that finds no session file.
AppNext ==
    \/ Mount(NoSessions)
    \/ RefreshTimer(NoSessions)
    \/ ActionRefresh(NoSessions)
    \/ FetchReturns
    \/ PlanUsageLoaded

SpecApp == InitApp /\ [][AppNext]_vars

\* The session list of a monitor whose fetches have not returned yet.
SelectNext ==
    \/ Mount(AppLists)
    \/ RefreshTimer(AppLists)
    \/ ActionRefresh(AppLists)
    \/ InputChanged
    \/ SelectCursor
    \/ RowSelected
    \/ OnSessionListSessionSelected
    \/ ActionNextSession
    \/ ActionPrevSession

SpecSelect == InitApp /\ [][SelectNext]_vars

\* The number of threads inside fetch_plan_usage.
InFlight == Cardinality({k \in 1..Len(workers) : workers[k].state = "fetching"})

\* C17: at every moment at most one plan-usage fetch (one blocking call of
\* fetch_plan_usage in a worker thread) is in flight, for any sequence of
\* timer ticks and manual refreshes.
C17_AtMostOneFetchInFlight == InFlight <= 1

----------------------------------------------------------------------------
(* format_reset_time, lines 430-450.  A datetime is                        *)
(*   [days, secs, micro, aware]                                            *)
(* days counted from 1970-01-01, secs the seconds of the day minus the UTC *)
(* offset (so possibly outside 0..86399), micro the microseconds in        *)
(* 0..999999, aware whether the text carries a UTC offset.  ParseIso is    *)
(* datetime.fromisoformat of CPython 3.11, which reads the UTF-8 encoding  *)
(* of the text up to its terminator: a date YYYY-MM-DD, YYYYMMDD,          *)
(* YYYY-Www[-d] or YYYYWww[d], then any one character, then a time of one  *)
(* to three two-digit fields, with or without colons, a fraction after "." *)
(* or ",", and "Z" or an offset written like a time.  A text holding       *)
(* U+0000 or a character above U+00FF is none of the texts of the model.   *)

\* str(n) of a natural number
RECURSIVE ToStr(_)
ToStr(n) ==
    IF n < 10 THEN SubSeq("0123456789", n + 1, n + 1)
    ELSE ToStr(n \div 10) \o SubSeq("0123456789", (n % 10) + 1, (n % 10) + 1)

IsLeap(y) == (y % 4 = 0 /\ y % 100 # 0) \/ y % 400 = 0

\* The number of days from 1970-01-01 to the date y-m-d.
DaysFromCivil(y, m, d) ==
    LET yy == IF m <= 2 THEN y - 1 ELSE y
        era == yy \div 400
        yoe == yy - era * 400
        mp == IF m > 2 THEN m - 3 ELSE m + 9
        doy == (153 * mp + 2) \div 5 + d - 1
        doe == yoe * 365 + yoe \div 4 - yoe \div 100 + doy
    IN  era * 146097 + doe - 719468

\* The characters U+0080 to U+00FF: two bytes each in UTF-8.
HighChars ==
    LET high == " ¡¢£¤¥¦§¨©ª«¬­®¯°±²³´µ¶·¸¹º»¼½¾¿ÀÁÂÃÄÅÆÇÈÉÊËÌÍÎÏÐÑÒÓÔÕÖ×ØÙÚÛÜÝÞßàáâãäåæçèéêëìíîïðñòóôõö÷øùúûüýþÿ"
    IN  {SubSeq(high, k, k) : k \in 1..Len(high)}

\* The UTF-8 encoding of a text, one character for each byte: a character
\* of two bytes is written twice.
Utf8(s) ==
    LET RECURSIVE from(_)
        from(i) ==
            IF i > Len(s) THEN ""
            ELSE LET c == SubSeq(s, i, i)
                 IN  (IF c \in HighChars THEN c \o c ELSE c) \o from(i + 1)
    IN  from(1)

\* The byte at position i, counted from 1; "" is the terminator after the
\* last byte.
At(b, i) == IF i >= 1 /\ i <= Len(b) THEN SubSeq(b, i, i) ELSE ""

\* parse_digits: the number written by the k bytes from position i, or -1
\* when one of them is no digit.
NumAt(b, i, k) ==
    IF \A j \in i..(i + k - 1) : At(b, j) \in Digits
    THEN ToInt(SubSeq(b, i, i + k - 1))
    ELSE -1

\* The first position from i on that holds no digit.
RECURSIVE SkipDigits(_, _)
SkipDigits(b, i) == IF At(b, i) \in Digits THEN SkipDigits(b, i + 1) ELSE i

\* The number of bytes of the date, from the bytes at positions 5, 6, 9 and
\* 11 (_find_isoformat_datetime_separator); -1 for YYYY-Www- and no more.
Separator(b) ==
    LET n == Len(b)
        idx == SkipDigits(b, 8) - 1
    IN  IF n = 7 THEN 7
        ELSE IF At(b, 5) = "-"
        THEN IF At(b, 6) = "W"
             THEN IF n > 8 /\ At(b, 9) = "-"
                  THEN IF n = 9 THEN -1
                       ELSE IF n > 10 /\ At(b, 11) \in Digits THEN 8
                       ELSE 10
                  ELSE 8
             ELSE 10
        ELSE IF At(b, 5) = "W"
        THEN IF idx < 9 THEN idx ELSE IF idx % 2 = 0 THEN 7 ELSE 8
        ELSE 8

\* iso_to_ymd and the range of the years: <<days>>, or <<>> for ValueError.
\* weekday is that of 1 January, Monday being 0; monday is the Monday of
\* ISO week 1 of the year, in days from 1970-01-01.
WeekDate(y, w, d) ==
    LET weekday == (DaysFromCivil(y, 1, 1) + 3) % 7
        monday == DaysFromCivil(y, 1, 1) - weekday + (IF weekday > 3 THEN 7 ELSE 0)
    IN  IF /\ y >= 1
           /\ w >= 1
           /\ w <= 52 \/ (w = 53 /\ (weekday = 3 \/ (weekday = 2 /\ IsLeap(y))))
           /\ d \in 1..7
           /\ monday + (w - 1) * 7 + d - 1 < DaysFromCivil(10000, 1, 1)
        THEN <<monday + (w - 1) * 7 + d - 1>>
        ELSE <<>>

\* parse_isoformat_date on a date of sep bytes, and the ranges the datetime
\* constructor checks: <<days>>, or <<>> for ValueError.
ParseDate(b, sep) ==
    LET y == NumAt(b, 1, 4)
        dash == At(b, 5) = "-"
        p == IF dash THEN 6 ELSE 5
        w == NumAt(b, p + 1, 2)
        hasday == sep = -1 \/ p + 2 < sep
        wd == IF ~hasday THEN 1
              ELSE IF dash /\ At(b, p + 3) # "-" THEN -1
              ELSE NumAt(b, IF dash THEN p + 4 ELSE p + 3, 1)
        m == NumAt(b, p, 2)
        d == IF dash /\ At(b, p + 2) # "-" THEN -1
             ELSE NumAt(b, IF dash THEN p + 3 ELSE p + 2, 2)
        days == IF m = 2 THEN (IF IsLeap(y) THEN 29 ELSE 28)
                ELSE IF m \in {4, 6, 9, 11} THEN 30 ELSE 31
    IN  IF y < 0 THEN <<>>
        ELSE IF At(b, p) = "W"
        THEN IF w < 0 \/ wd < 0 THEN <<>> ELSE WeekDate(y, w, wd)
        ELSE IF m < 0 \/ d < 0 THEN <<>>
        ELSE IF y >= 1 /\ m \in 1..12 /\ d >= 1 /\ d <= days
        THEN <<DaysFromCivil(y, m, d)>>
        ELSE <<>>

RECURSIVE Pow10(_)
Pow10(k) == IF k = 0 THEN 1 ELSE 10 * Pow10(k - 1)

\* The fields read, the fields not written being 0.
Fields(vals) == [k \in 1..3 |-> IF k <= Len(vals) THEN vals[k] ELSE 0]

\* The fraction of parse_hh_mm_ss_ff from position p of a text that ends
\* after e bytes: at most six digits are read and further digits passed
\* over.  <<whether bytes are left, fields, microseconds>>, or <<>>.
ParseFraction(t, p, e, vals) ==
    LET k == IF e - (p - 1) >= 6 THEN 6 ELSE e - (p - 1)
        v == NumAt(t, p, k)
    IN  IF v < 0 THEN <<>>
        ELSE <<At(t, SkipDigits(t, p + k)) # "", Fields(vals), v * Pow10(6 - k)>>

\* parse_hh_mm_ss_ff from field i (0, 1, 2) at position p of a text that
\* ends after e bytes; colon is whether the first field was followed by a
\* colon.  <<whether bytes are left, fields, microseconds>>, or <<>>.
RECURSIVE ParseFields(_, _, _, _, _, _)
ParseFields(t, p, e, i, colon, vals) ==
    LET v == NumAt(t, p, 2)
        c == At(t, p + 2)
        sep == IF i = 0 THEN c = ":" ELSE colon
        got == Append(vals, v)
    IN  IF v < 0 THEN <<>>
        ELSE IF p + 2 >= e THEN <<c # "", Fields(got), 0>>
        ELSE IF sep /\ c = ":"
        THEN IF i < 2 THEN ParseFields(t, p + 3, e, i + 1, sep, got)
             ELSE ParseFraction(t, p + 3, e, got)
        ELSE IF c \in {".", ","} THEN ParseFraction(t, p + 3, e, got)
        ELSE IF ~sep
        THEN IF i < 2 THEN ParseFields(t, p + 2, e, i + 1, sep, got)
             ELSE ParseFraction(t, p + 2, e, got)
        ELSE <<>>

\* The position of the first "Z", "+" or "-" from i on, or that after the
\* last byte.
RECURSIVE TzPos(_, _)
TzPos(t, i) ==
    IF i > Len(t) \/ At(t, i) \in {"Z", "+", "-"} THEN i ELSE TzPos(t, i + 1)

\* The UTC offset written after the sign at position z: <<seconds,
\* microseconds>>, or <<>> for ValueError.  An offset of 0 whole seconds is
\* UTC whatever its fraction; an offset of 24 hours or more is refused.
ParseZone(t, z) ==
    LET Zone(r) ==
            LET off == r[2][1] * 3600 + r[2][2] * 60 + r[2][3]
            IN  IF r = <<>> THEN <<>>
                ELSE IF r[1] THEN <<>>
                ELSE IF off = 0 THEN <<0, 0>>
                ELSE IF off >= 86400 THEN <<>>
                ELSE IF At(t, z) = "-" THEN <<0 - off, 0 - r[3]>>
                ELSE <<off, r[3]>>
    IN  Eval(Zone, ParseFields(t, z + 1, Len(t), 0, TRUE, <<>>))

\* parse_isoformat_time and the ranges the datetime constructor checks:
\* <<seconds of the day, microseconds, whether an offset is written, offset
\* seconds, offset microseconds>>, or <<>> for ValueError.
ParseClock(t) ==
    LET n == Len(t)
        Clock(z) ==
            LET Zoned(r) ==
                    LET Time(zone) ==
                            IF zone = <<>> THEN <<>>
                            ELSE IF r[2][1] > 23 \/ r[2][2] > 59 \/ r[2][3] > 59 THEN <<>>
                            ELSE <<r[2][1] * 3600 + r[2][2] * 60 + r[2][3], r[3],
                                   z # n + 1, zone[1], zone[2]>>
                    IN  IF r = <<>> THEN <<>>
                        ELSE Eval(Time,
                                  IF z = n + 1 THEN (IF r[1] THEN <<>> ELSE <<0, 0>>)
                                  ELSE IF At(t, z) = "Z"
                                  THEN (IF z # n THEN <<>> ELSE <<0, 0>>)
                                  ELSE ParseZone(t, z))
            IN  Eval(Zoned, ParseFields(t, 1, z - 1, 0, TRUE, <<>>))
    IN  Eval(Clock, TzPos(t, 1))

\* datetime.fromisoformat(s), line 435: <<datetime>>, or <<>> for ValueError.
ParseIso(s) ==
    LET Parse(b) ==
            LET sep == Separator(b)
                skip == IF At(b, sep + 1) \in HighChars THEN 2 ELSE 1
                Dated(date) ==
                    LET Stamp(clk) ==
                            LET micro == clk[2] - clk[5]
                                carry == IF micro < 0 THEN -1
                                         ELSE IF micro >= 1000000 THEN 1 ELSE 0
                            IN  IF clk = <<>> THEN <<>>
                                ELSE <<[days |-> date[1],
                                        secs |-> clk[1] - clk[4] + carry,
                                        micro |-> micro - carry * 1000000,
                                        aware |-> clk[3]]>>
                    IN  IF date = <<>> THEN <<>>
                        ELSE IF Len(b) <= sep
                        THEN <<[days |-> date[1], secs |-> 0, micro |-> 0,
                                aware |-> FALSE]>>
                        ELSE Eval(Stamp, Eval(ParseClock, SubSeq(b, sep + skip + 1, Len(b))))
            IN  IF Len(b) < 7 THEN <<>> ELSE Eval(Dated, ParseDate(b, sep))
    IN  Eval(Parse, Utf8(s))

DurationText_hours_first(days, hours, minutes) ==
    IF hours > 0 THEN ToStr(hours) \o "h " \o ToStr(minutes) \o "m"
    ELSE ToStr(minutes) \o "m"

\* Lines 441-449: the text of a positive duration.
DurationText(days, hours, minutes) ==
    IF days > 0 THEN ToStr(days) \o "d " \o ToStr(hours) \o "h"
    ELSE IF hours > 0 THEN ToStr(hours) \o "h " \o ToStr(minutes) \o "m"
    ELSE ToStr(minutes) \o "m"

\* total_seconds() of a duration of d >= 0 days, r seconds and u
\* microseconds is the double nearest to the seconds: from 2^34 seconds on
\* that is the next whole second when the microseconds are within the
\* margin of that size below it.  The sizes start at 2^38, 2^37, 2^36, 2^35
\* and 2^34 seconds, written in days and seconds.
RoundsUp(d, r, u) ==
    LET from(dd, rr) == d > dd \/ (d = dd /\ r >= rr)
        margin == IF from(3181457, 22144) THEN 30
                  ELSE IF from(1590728, 54272) THEN 15
                  ELSE IF from(795364, 27136) THEN 7
                  ELSE IF from(397682, 13568) THEN 3
                  ELSE IF from(198841, 6784) THEN 1
                  ELSE 0
    IN  1000000 - u <= margin

\* Lines 430-450.  reset_dt - now raises TypeError when reset_dt carries no
\* offset; int(delta.total_seconds()) drops the fraction of the seconds
\* left, towards zero.  The difference is kept as whole days d and a rest
\* of 0 <= r < 86400 seconds (the microseconds borrowing one second), so
\* that the seconds left are d * 86400 + r.
format_reset_time(s, clk) ==
    LET Format(parsed) ==
            LET dt == parsed[1]
                u == (dt.micro - clk.micro) % 1000000
                ds == (dt.secs - clk.secs) - (IF dt.micro < clk.micro THEN 1 ELSE 0)
                d0 == (dt.days - clk.days) + (ds \div 86400)
                r0 == ds % 86400
                up == d0 >= 0 /\ RoundsUp(d0, r0, u)
                d == IF up /\ r0 = 86399 THEN d0 + 1 ELSE d0
                r == IF up THEN (r0 + 1) % 86400 ELSE r0
            IN  IF parsed = <<>> THEN ""
                ELSE IF ~dt.aware THEN ""
                ELSE IF d < 0 \/ (d = 0 /\ r = 0) THEN "resetting..."
                ELSE DurationText(d, r \div 3600, (r % 3600) \div 60)
    IN  IF s = "" THEN "" ELSE Eval(Format, ParseIso(s))

\* The call of format_reset_time.
FormatResetTime ==
    /\ formatted = <<>>
    /\ formatted' = <<format_reset_time(resets_at, clock[1])>>
    /\ UNCHANGED <<resets_at, clock>>
    /\ UNCHANGED notFormat

\* Arguments: dates, times and offsets put together, and texts that are no
\* timestamps.
ResetSamples ==
    { d \o t \o z :
        d \in {"2020-01-01", "2025-01-01", "2025-01-03", "2025-02-30", "2024-02-29"},
        t \in {"T00:00:00", "T00:00:01", "T00:00:01.400000", "T00:01:00.5",
               "T02:01:01", " 05:10", "T23:59:59.999999", "T24:00:00"},
        z \in {"", "+00:00", "Z", "+02:00", "-08:00"} }
    \cup {"", "not-a-timestamp", "2025-01-01", "2025-13-01", "resetting...",
          "2025-01-01T05:00:00+00:00\n", " 2025-01-01T05:00:00+00:00",
          "2025-01-01T00:59:60+00:00", "2025-01-01T05:00:00+24:00",
          "20250101T020101Z", "2025-W01-3T00:00:01+0000", "2025-W01",
          "2025-01-01_02:01+02", "2025-01-01 02:01:01,5 -08:00",
          "2025-01-01T00:00:01+00:00:00.5", "2025-01-01T00:01:00.1234567+00:60",
          "2025-01-01T05:10:59.", "2025-01-01T05:10:59.Z",
          "3000-01-01T00:00:00.499999+00:00"}

\* Values of datetime.now(timezone.utc).
ClockSamples ==
    { ParseIso("2025-01-01T00:00:00.500000+00:00"),
      ParseIso("2024-12-31T22:00:01+00:00") }

FormatStart ==
    /\ resets_at \in ResetSamples
    /\ clock \in ClockSamples
    /\ formatted = <<>>

InitFormat ==
    /\ FormatStart /\ PlanIdle /\ AppIdle /\ ViewIdle
    /\ ParseInit /\ FamilyIdle /\ MetricIdle /\ SummaryIdle /\ CycleIdle

FormatNext == FormatResetTime

SpecFormat == InitFormat /\ [][FormatNext]_vars

----------------------------------------------------------------------------
(* Properties of format_reset_time (SpecFormat). *)

\* The time from the clock value to the datetime: d whole days, r seconds
\* in 0..86399 and u microseconds in 0..999999.
TimeLeft(dt, clk) ==
    LET ds == (dt.secs - clk.secs) - (IF dt.micro < clk.micro THEN 1 ELSE 0)
    IN  [d |-> (dt.days - clk.days) + (ds \div 86400),
         r |-> ds % 86400,
         u |-> (dt.micro - clk.micro) % 1000000]

\* The datetime is at or before the clock value.
AtOrBefore(dt, clk) ==
    LET t == TimeLeft(dt, clk)
    IN  t.d < 0 \/ (t.d = 0 /\ t.r = 0 /\ t.u = 0)

\* Less than one whole second is left from the clock value to the datetime.
BelowOneSecond(dt, clk) ==
    LET t == TimeLeft(dt, clk)
    IN  t.d < 0 \/ (t.d = 0 /\ t.r = 0)

\* A duration of d days and r whole seconds in days/hours, hours/minutes
\* or minutes.
ExpectedDuration(d, r) ==
    IF d > 0 THEN ToStr(d) \o "d " \o ToStr(r \div 3600) \o "h"
    ELSE IF r >= 3600
    THEN ToStr(r \div 3600) \o "h " \o ToStr((r % 3600) \div 60) \o "m"
    ELSE ToStr(r \div 60) \o "m"

\* The durations of the whole seconds left: that of the seconds rounded
\* down and, from 2^34 seconds (198841 days and 6784 seconds) on, also that
\* of one second more.
ExpectedDurations(t) ==
    {ExpectedDuration(t.d, t.r)}
        \cup IF t.d > 198841 \/ (t.d = 198841 /\ t.r >= 6784)
             THEN {IF t.r = 86399 THEN ExpectedDuration(t.d + 1, 0)
                   ELSE ExpectedDuration(t.d, t.r + 1)}
             ELSE {}

\* C18 as stated: "resetting..." when the timestamp is at or before now, the
\* empty string when the input is empty or unparsable, otherwise a duration
\* computed from the whole seconds remaining.
C18_ResettingIffAtOrBeforeNow ==
    formatted # <<>> =>
        LET p == ParseIso(resets_at)
            t == TimeLeft(p[1], clock[1])
        IN  formatted[1] =
                IF resets_at = "" \/ p = <<>> THEN ""
                ELSE IF AtOrBefore(p[1], clock[1]) THEN "resetting..."
                ELSE ExpectedDuration(t.d, t.r)

\* C18: format_reset_time returns a text for every input: "resetting..."
\* when fewer than one whole second is left until the timestamp (so also
\* when it is at or before now), the empty string when the input is empty,
\* unparsable or carries no UTC offset, and otherwise a duration in
\* days/hours, hours/minutes or minutes of the whole seconds left, or of
\* one second more when 2^34 seconds or more are left.
C18_ResettingBelowOneSecond ==
    formatted # <<>> =>
        LET p == ParseIso(resets_at)
        IN  IF resets_at = "" \/ p = <<>> THEN formatted[1] = ""
            ELSE IF ~p[1].aware THEN formatted[1] = ""
            ELSE IF BelowOneSecond(p[1], clock[1]) THEN formatted[1] = "resetting..."
            ELSE formatted[1] \in ExpectedDurations(TimeLeft(p[1], clock[1]))

C18_Witness ==
    /\ resets_at = "2025-01-01T00:00:01.400000+00:00"
    /\ clock = ParseIso("2025-01-01T00:00:00.500000+00:00")
    /\ formatted = <<"resetting...">>

----------------------------------------------------------------------------
(* Further properties of parse_session (SpecParse). *)

HasTimestamp(l) == l.timestamp # ""

\* The records consumed that carry a timestamp, in file order.
Stamped == SelectSeq(RecordsRead, HasTimestamp)

\* C19: started_at is the timestamp of the first record in file order that
\* carries a non-empty timestamp and last_activity that of the last such
\* record, whatever the chronological order of the values; both are empty
\* exactly when no record carries a timestamp.
C19_FirstAndLastInFileOrder ==
    pc \in {"reading", "returned"} =>
        IF Len(Stamped) = 0
        THEN session.started_at = "" /\ session.last_activity = ""
        ELSE /\ session.started_at = Stamped[1].timestamp
             /\ session.last_activity = Stamped[Len(Stamped)].timestamp

\* A parse returned for a file whose timestamps run backwards, with a
\* record without timestamp in between.
C19_Witness ==
    /\ pc = "returned" /\ ~io_error /\ pos = 3 /\ Len(file) = 3
    /\ file[1] = AssistantLine("2025-01-01T00:00:09Z", "", Usage(7, 0, 0, 300))
    /\ file[2] = OtherLine("summary", "")
    /\ file[3] = UserLine("2025-01-01T00:00:00Z")
    /\ session.started_at = "2025-01-01T00:00:09Z"
    /\ session.last_activity = "2025-01-01T00:00:00Z"

\* input_tokens + cache_creation_tokens + cache_read_tokens of a record
ContextFill(l) ==
    l.usage.input_tokens + l.usage.cache_creation_input_tokens
        + l.usage.cache_read_input_tokens

\* C20: in every state of a parse latest_context_used is the context fill
\* (input + cache creation + cache read tokens) of the most recent
\* assistant record processed, 0 before any: each assistant record
\* overwrites it, and no user or other-typed record changes it.
C20_LatestContextIsLastFill ==
    pc \in {"reading", "returned"} =>
        session.latest_context_used =
            IF Len(AssistantsRead) = 0 THEN 0
            ELSE ContextFill(AssistantsRead[Len(AssistantsRead)])

\* Two assistant records with differing fills, then a user record.
C20_Witness ==
    /\ pc = "reading" /\ pos = 3
    /\ ValidAssistant(file[1]) /\ ContextFill(file[1]) = 1300
    /\ ValidAssistant(file[2]) /\ ContextFill(file[2]) = 307
    /\ file[3].type = "user"
    /\ session.latest_context_used = 307

----------------------------------------------------------------------------
(* parse_session over a growing file of records and lines that are no      *)
(* UTF-8: other-typed records with and without a timestamp, and assistant  *)
(* records of a known family, of an unknown family and without a model.    *)

RecordLines ==
    { UndecodableLine,
      [UndecodableLine EXCEPT !.fault = "cut"],
      OtherLine("summary", "2025-01-01T00:00:07Z"),
      OtherLine("system", ""),
      AssistantLine("2025-01-01T00:00:05Z", "claude-sonnet-4-5-20250929",
                    Usage(1000, 500, 200, 100)),
      AssistantLine("2025-01-01T00:00:06Z", "gpt-4o", Usage(7, 0, 0, 300)),
      AssistantLine("2025-01-01T00:00:09Z", "", Usage(0, 3, 0, 0)) }

RecordsNext ==
    \/ StatFileSize
    \/ OpenFile
    \/ StatError
    \/ ReadLine
    \/ EndOfFile
    \/ ReadError
    \/ AppendLine(RecordLines)

SpecRecords == InitParse /\ [][RecordsNext]_vars

----------------------------------------------------------------------------
(* Properties of parse_session over records (SpecRecords). *)

\* The step consumes a record whose type is neither "user" nor "assistant".
ReadsOtherTyped ==
    /\ pc = "reading" /\ pc' = "reading"
    /\ pos < Len(file) /\ pos' = pos + 1
    /\ file[pos + 1].kind = "record"
    /\ file[pos + 1].type \notin {"user", "assistant"}

\* C21 as stated: a record whose type is neither "user" nor "assistant"
\* increments message_count by one and leaves every other field of the
\* session unchanged, started_at and last_activity included.
C21_OtherTypeOnlyCounts ==
    [][ReadsOtherTyped => session' = [session EXCEPT !.message_count = @ + 1]]_vars

\* C21: a record whose type is neither "user" nor "assistant" increments
\* message_count by one, sets started_at (when still empty) and
\* last_activity to its timestamp when it carries one, and leaves every
\* other field of the session unchanged.
C21_OtherTypeCountsAndStamps ==
    [][ReadsOtherTyped =>
        LET ts == file[pos + 1].timestamp
        IN  session' =
              [session EXCEPT
                 !.message_count = @ + 1,
                 !.started_at = IF ts # "" /\ @ = "" THEN ts ELSE @,
                 !.last_activity = IF ts # "" THEN ts ELSE @]]_vars

\* An other-typed record with a timestamp was consumed after an assistant
\* record: it is counted and moves last_activity only.
C21_Witness ==
    /\ pc = "reading" /\ pos = 2
    /\ ValidAssistant(file[1]) /\ file[1].model = "gpt-4o"
    /\ file[2] = OtherLine("summary", "2025-01-01T00:00:07Z")
    /\ session.message_count = 2
    /\ session.assistant_message_count = 1
    /\ session.user_message_count = 0
    /\ session.started_at = "2025-01-01T00:00:06Z"
    /\ session.last_activity = "2025-01-01T00:00:07Z"
    /\ session.latest_context_used = 307

\* C22: in every state of a parse each of the four running token totals
\* equals the sum of the corresponding field over the MessageStats appended
\* so far, a token sub-field absent from a usage object counting as 0.
C22_TotalsAreSumsOfStats ==
    pc \in {"reading", "returned"} =>
        /\ session.total_input_tokens
              = SumOver(session.messages, LAMBDA m : m.input_tokens)
        /\ session.total_output_tokens
              = SumOver(session.messages, LAMBDA m : m.output_tokens)
        /\ session.total_cache_creation_tokens
              = SumOver(session.messages, LAMBDA m : m.cache_creation_tokens)
        /\ session.total_cache_read_tokens
              = SumOver(session.messages, LAMBDA m : m.cache_read_tokens)

\* Three assistant records consumed, two of them with absent sub-fields.
C22_Witness ==
    /\ pc = "reading" /\ pos = 3
    /\ Len(session.messages) = 3
    /\ session.total_input_tokens = 1007
    /\ session.total_output_tokens = 503
    /\ session.total_cache_creation_tokens = 200
    /\ session.total_cache_read_tokens = 400

HasModel(l) == l.model # ""

\* The assistant records consumed that carry a model, in file order.
Modelled == SelectSeq(AssistantsRead, HasModel)

\* The registry window of a model's resolved family, 200,000 when the
\* family is unknown.
WindowOfModel(model) ==
    IF \E f \in Families : _get_model_family(model) = f
    THEN MODEL_CONTEXT_WINDOWS[_get_model_family(model)]
    ELSE 200000

\* C23: model is the model of the last assistant record in file order that
\* carries a non-empty model and context_window_size the registry window
\* of that model's resolved family, 200,000 when the family is unknown or
\* no model was seen; an assistant record without a model leaves both
\* unchanged.
C23_LastModelAndItsWindow ==
    pc \in {"reading", "returned"} =>
        IF Len(Modelled) = 0
        THEN session.model = "" /\ session.context_window_size = 200000
        ELSE /\ session.model = Modelled[Len(Modelled)].model
             /\ session.context_window_size
                   = WindowOfModel(Modelled[Len(Modelled)].model)

\* A parse returned for a known model, an unknown model and then an
\* assistant record without a model.
C23_Witness ==
    /\ pc = "returned" /\ ~io_error /\ pos = 3 /\ Len(file) = 3
    /\ file[1].model = "claude-sonnet-4-5-20250929"
    /\ file[2].model = "gpt-4o"
    /\ ValidAssistant(file[3]) /\ file[3].model = ""
    /\ session.model = "gpt-4o"
    /\ session.context_window_size = 200000

----------------------------------------------------------------------------
(* The selection of the session list across reloads and row selections.    *)

\* A step of _load_data: every reload starts one more plan-usage fetch.
Reloaded == Len(workers') = Len(workers) + 1

\* The file of the session selected before the step, <<>> when the
\* selected index designates none.
SelectedFile ==
    IF _sessions # <<>> /\ _selected_idx < Len(_sessions)
    THEN <<_sessions[_selected_idx + 1].file_path>>
    ELSE <<>>

\* C24: after every reload of the session list, if the file of the
\* previously selected session is still among the discovered sessions the
\* selected index designates that same session wherever it now sits;
\* otherwise, when the list is non-empty, the selected index lies in
\* [0, len(sessions) - 1].
C24_SelectionFollowsFile ==
    [][Reloaded =>
          IF /\ SelectedFile # <<>>
             /\ \E i \in 1..Len(_sessions') : _sessions'[i].file_path = SelectedFile[1]
          THEN /\ _selected_idx' < Len(_sessions')
               /\ _sessions'[_selected_idx' + 1].file_path = SelectedFile[1]
          ELSE _sessions' # <<>> => _selected_idx' \in 0..(Len(_sessions') - 1)]_vars

\* C30: selecting a row of the session table makes the application's
\* selected session the session displayed in that row, for every filter
\* text, hidden sessions included.
C30_SelectedIsTheRowShown ==
    picked # <<>> =>
        /\ _selected_idx < Len(_sessions)
        /\ _sessions[_selected_idx + 1] = picked[1]

\* C29: plan-usage results are applied in the order their fetches were
\* started: no result of an earlier-started fetch is applied after the
\* result of a later-started one.
C29_AppliedInStartOrder ==
    \A i, j \in 1..Len(applied) : i < j => applied[i] < applied[j]

----------------------------------------------------------------------------
(* RateMonitor.update_rates, widgets/rate_monitor.py lines 68-105.  The    *)
(* clock is [local, utcoffset]: the naive local datetime that              *)
(* datetime.now() returns and the UTC offset of the local zone in seconds. *)

MaxMessages == 3

RateWindow == 60

RPM_LIMIT == 50

TPM_INPUT_LIMIT == 40000

TPM_OUTPUT_LIMIT == 8000

\* (a - b).total_seconds() <= limit for two datetimes read on the same
\* clock face and a limit below a day: the whole seconds of the difference,
\* rounded up, are at most the limit.  Datetimes more than 24000 days apart
\* are told by their days, which keeps the seconds within 32 bits.
WithinSeconds(a, b, limit) ==
    LET dd == a.days - b.days
        ds == (a.secs - b.secs) + (IF a.micro > b.micro THEN 1 ELSE 0)
    IN  IF dd > 24000 THEN FALSE
        ELSE IF dd < -24000 THEN TRUE
        ELSE dd * 86400 + ds <= limit

\* Lines 85-93: the scan from message i backward.  fromisoformat raises
\* ValueError for a text it cannot read, and the subtraction of a datetime
\* with an offset from the naive now raises TypeError: both are caught and
\* the scan goes on.  The first readable message older than the window
\* ends the scan.
RECURSIVE Recent(_, _, _)
Recent(msgs, i, nowdt) ==
    IF i = 0 THEN <<>>
    ELSE LET ts == ParseIso(msgs[i].timestamp)
         IN  IF ts = <<>> THEN Recent(msgs, i - 1, nowdt)
             ELSE IF ts[1].aware THEN Recent(msgs, i - 1, nowdt)
             ELSE IF WithinSeconds(nowdt.local, ts[1], RateWindow)
                  THEN <<msgs[i]>> \o Recent(msgs, i - 1, nowdt)
                  ELSE <<>>

RECURSIVE SumInput(_)
SumInput(ms) ==
    IF ms = <<>> THEN 0
    ELSE Head(ms).input_tokens + Head(ms).cache_creation_tokens
            + Head(ms).cache_read_tokens + SumInput(Tail(ms))

RECURSIVE SumOutput(_)
SumOutput(ms) ==
    IF ms = <<>> THEN 0 ELSE Head(ms).output_tokens + SumOutput(Tail(ms))

\* min(100, (value / limit) * 100) as a fraction <<numerator, denominator>>
RatePct(value, limit) ==
    IF value >= limit THEN <<100, 1>> ELSE <<value * 100, limit>>

\* Lines 75-105: the window and the figures given to the three bars.
Rates(msgs, nowdt) ==
    LET recent == IF msgs = <<>> THEN <<>> ELSE Recent(msgs, Len(msgs), nowdt)
    IN  [recent |-> recent,
         rpm |-> Len(recent),
         tpm_in |-> SumInput(recent),
         tpm_out |-> SumOutput(recent),
         rpm_pct |-> RatePct(Len(recent), RPM_LIMIT),
         tpm_in_pct |-> RatePct(SumInput(recent), TPM_INPUT_LIMIT),
         tpm_out_pct |-> RatePct(SumOutput(recent), TPM_OUTPUT_LIMIT)]

\* The call of update_rates.
UpdateRates ==
    /\ rates = <<>>
    /\ rates' = <<Rates(messages, rate_now[1])>>
    /\ UNCHANGED <<messages, rate_now>>
    /\ UNCHANGED notRate

\* Timestamps of messages: 10 s, 60 s, just over 60 s and an hour before
\* the clock samples, written without and with a UTC offset, and texts that
\* are no timestamps.
RateStamps ==
    {"2025-01-01T00:00:30", "2024-12-31T23:59:40", "2024-12-31T23:59:39.999999",
     "2024-12-31T23:00:40", "2025-01-01T00:00:30.000Z", "2024-12-31T23:00:40Z",
     "yesterday"}

RateMessages ==
    {MessageStats(ts, "claude-sonnet-4-5", Usage(100, 20, 30, 40), "assistant") : ts \in RateStamps}

\* A machine whose local zone is UTC, at 2025-01-01T00:00:40.
RateClocks ==
    {<<[local |-> ParseIso("2025-01-01T00:00:40")[1], utcoffset |-> 0]>>}

RateStart ==
    /\ messages \in UNION {[1..n -> RateMessages] : n \in 0..MaxMessages}
    /\ rate_now \in RateClocks
    /\ rates = <<>>

InitRate ==
    /\ RateStart /\ FindIdle /\ ShowIdle
    /\ PlanIdle /\ AppIdle /\ FormatIdle
    /\ ParseInit /\ FamilyIdle /\ MetricIdle /\ SummaryIdle /\ CycleIdle

RateNext == UpdateRates

SpecRate == InitRate /\ [][RateNext]_vars

\* The instant of a readable timestamp, as a datetime in UTC: a timestamp
\* without an offset is a local time.
Instant(dt, nowdt) ==
    IF dt.aware THEN dt ELSE [dt EXCEPT !.secs = @ - nowdt.utcoffset]

\* The window as described: from the most recent message backward, every
\* message whose timestamp is within 60 seconds of now, up to the first
\* message older than that; texts that are no timestamps are passed over.
RECURSIVE WindowOf(_, _, _)
WindowOf(msgs, i, nowdt) ==
    IF i = 0 THEN <<>>
    ELSE LET ts == ParseIso(msgs[i].timestamp)
         IN  IF ts = <<>> THEN WindowOf(msgs, i - 1, nowdt)
             ELSE IF WithinSeconds(Instant(nowdt.local, nowdt), Instant(ts[1], nowdt), RateWindow)
                  THEN <<msgs[i]>> \o WindowOf(msgs, i - 1, nowdt)
                  ELSE <<>>

\* C25: the rate window of update_rates is, from the most recent message
\* backward, every message whose timestamp is within 60 seconds of now up
\* to but excluding the first message older than 60 seconds; a message with
\* a malformed timestamp is skipped without ending the scan; the request
\* count and the two token sums are taken over exactly that window.
C25_WindowIsLastSixtySeconds ==
    rates # <<>> =>
        LET window == WindowOf(messages, Len(messages), rate_now[1])
        IN  /\ rates[1].recent = window
            /\ rates[1].rpm = Len(window)
            /\ rates[1].tpm_in = SumInput(window)
            /\ rates[1].tpm_out = SumOutput(window)

----------------------------------------------------------------------------
(* The active sessions of summarize_usage (SpecSummary). *)

\* The sessions modified less than 3600 seconds before the clock value t.
ModifiedWithin(ss, t) ==
    {i \in 1..Len(ss) : t - ss[i].file_mtime < ActiveWindow}

\* C26: summarize_usage counts as active exactly the sessions whose file
\* modification time is less than 3600 seconds before the clock value it
\* read itself, so that 0 <= active_sessions <= total_sessions.
C26_ActiveIsModifiedWithinTheHour ==
    spc = "done" =>
        /\ summary.active_sessions = Cardinality(ModifiedWithin(sessions, now))
        /\ 0 <= summary.active_sessions
        /\ summary.active_sessions <= summary.total_sessions

\* Three sessions: one modified 3599 s before the clock value, one later
\* than the clock value, one without a modification time; two are active.
C26_Witness ==
    /\ spc = "done"
    /\ Len(sessions) = 3
    /\ now - sessions[1].file_mtime = 3599
    /\ now - sessions[2].file_mtime < 0
    /\ sessions[3].file_mtime = 0
    /\ summary.active_sessions = 2
    /\ summary.total_sessions = 3

----------------------------------------------------------------------------
(* find_claude_dir, collector.py lines 143-153.  A path is on disk a       *)
(* directory ("dir"), a file ("file"), nothing ("absent"), a symbolic link *)
(* to nothing ("dangling"), or sits in a directory the user may not search *)
(* ("denied"): Path.exists() answers True for the first two, False for the *)
(* next two, and lets the PermissionError of stat() through for the last.  *)

PathKinds == {"dir", "file", "absent", "dangling", "denied"}

\* Lines 146-149: the candidates, in order.  Path.home() / ".claude" puts
\* one "/" between the two, none after a home that ends with one ("/") and
\* none after the home "." of no segment.
Candidates(h) ==
    << (IF h = "." THEN "" ELSE IF EndsWith(h, "/") THEN h ELSE h \o "/")
          \o ".claude",
       "/root/.claude" >>

\* What find_claude_dir does from candidate i on: the path it returns, or
\* the exception that leaves it.
RECURSIVE FindFrom(_, _, _)
FindFrom(h, disk, i) ==
    IF i > Len(Candidates(h))
    THEN [kind |-> "returned", path |-> Candidates(h)[1]]
    ELSE IF disk[Candidates(h)[i]] = "denied"
         THEN [kind |-> "raised", path |-> Candidates(h)[i]]
         ELSE IF disk[Candidates(h)[i]] \in {"dir", "file"}
              THEN [kind |-> "returned", path |-> Candidates(h)[i]]
              ELSE FindFrom(h, disk, i + 1)

\* The call of find_claude_dir.
FindClaudeDir ==
    /\ claude_found = <<>>
    /\ claude_found' = <<FindFrom(home, present, 1)>>
    /\ UNCHANGED <<home, present>>
    /\ UNCHANGED notFind

Homes == {"/root", "/home/user", "/home/dev", "/home/ci", "/", "."}

\* The user may search the home directory; /root is closed to other users
\* or not.
FindStart ==
    /\ home \in Homes
    /\ present \in [{Candidates(home)[i] : i \in 1..2} -> PathKinds]
    /\ present[Candidates(home)[1]] # "denied"
    /\ claude_found = <<>>

InitFind ==
    /\ FindStart /\ RateIdle /\ ShowIdle
    /\ PlanIdle /\ AppIdle /\ FormatIdle
    /\ ParseInit /\ FamilyIdle /\ MetricIdle /\ SummaryIdle /\ CycleIdle

FindNext == FindClaudeDir

SpecFind == InitFind /\ [][FindNext]_vars

\* The candidates that exist, by their position in the list.
Existing(h, disk) ==
    {i \in 1..Len(Candidates(h)) : disk[Candidates(h)[i]] \in {"dir", "file"}}

\* C27: find_claude_dir returns the first candidate path of its ordered
\* candidate list that exists, and the last candidate of the list when
\* none of them exists.
C27_FirstExistingElseLast ==
    claude_found # <<>> =>
        /\ claude_found[1].kind = "returned"
        /\ claude_found[1].path =
              IF Existing(home, present) # {}
              THEN Candidates(home)[Min(Existing(home, present))]
              ELSE Candidates(home)[Len(Candidates(home))]

----------------------------------------------------------------------------
(* What is shown of a PlanUsage: PlanUsagePanel.update_usage and           *)
(* _update_limit (widgets/plan_usage.py lines 72-145) and the plan table   *)
(* of _print_snapshot (__main__.py lines 170-187).  A slot of the panel is *)
(* [label, progress, reset]: the text of its label, the progress given to  *)
(* its bar and the text of its reset line.                                 *)

\* f"{n:.0f}" of an integer
Fmt0(n) == IF n < 0 THEN "-" \o ToStr(0 - n) ELSE ToStr(n)

\* plan_usage.py lines 54-70, compose: the panel before any update.
ComposedPanel ==
    [status |-> "",
     five_hour |-> [label |-> "5-Hour Session", progress |-> 0, reset |-> ""],
     seven_day |-> [label |-> "Weekly (All Models)", progress |-> 0, reset |-> ""],
     model |-> [label |-> "Weekly (Sonnet)", progress |-> 0, reset |-> ""]]

\* plan_usage.py lines 113-145, _update_limit, clk being the clock value
\* format_reset_time reads.
UpdateLimit(slot, limit, clk) ==
    IF limit = <<>>
    THEN [slot EXCEPT !.progress = 0, !.reset = ""]
    ELSE LET shown == Min({100, limit[1].utilization})
             reset_str == format_reset_time(limit[1].resets_at, clk)
         IN  [label |-> limit[1].label \o ": " \o Fmt0(shown) \o "%",
              progress |-> shown,
              reset |-> IF reset_str # "" THEN "  Resets in " \o reset_str ELSE ""]

\* plan_usage.py lines 72-111, update_usage.
update_usage(p, u, clk) ==
    IF u.error # "" THEN [p EXCEPT !.status = "  " \o u.error]
    ELSE IF ~available(u) THEN [p EXCEPT !.status = "  No plan data available"]
    ELSE LET model_limit ==
                 IF u.seven_day_opus # <<>> THEN u.seven_day_opus
                 ELSE u.seven_day_sonnet
         IN  [status |-> "",
              five_hour |-> UpdateLimit(p.five_hour, u.five_hour, clk),
              seven_day |-> UpdateLimit(p.seven_day, u.seven_day, clk),
              model |->
                  IF model_limit # <<>>
                  THEN UpdateLimit(p.model, model_limit, clk)
                  ELSE [label |-> "Weekly (Model)", progress |-> 0, reset |-> ""]]

\* __main__.py line 180.
SnapshotStyle(utilization) ==
    IF utilization < 50 THEN "green"
    ELSE IF utilization < 80 THEN "yellow" ELSE "red"

\* __main__.py lines 178-185: the row of one window, none for None.
SnapshotRow(limit, clk) ==
    IF limit = <<>> THEN <<>>
    ELSE <<[limit |-> limit[1].label,
            usage |-> "[" \o SnapshotStyle(limit[1].utilization) \o "]"
                        \o Fmt0(limit[1].utilization) \o "%[/"
                        \o SnapshotStyle(limit[1].utilization) \o "]",
            resets |-> format_reset_time(limit[1].resets_at, clk)]>>

\* __main__.py lines 171-189: the plan table, or the error line.
PlanTable(u, clk) ==
    IF available(u)
    THEN [rows |-> SnapshotRow(u.five_hour, clk) \o SnapshotRow(u.seven_day, clk)
                     \o SnapshotRow(u.seven_day_sonnet, clk)
                     \o SnapshotRow(u.seven_day_opus, clk),
          line |-> ""]
    ELSE [rows |-> <<>>,
          line |-> IF u.error # "" THEN "Plan Usage: " \o u.error ELSE ""]

\* The clock value format_reset_time reads while the PlanUsage is shown.
ShowClock == ParseIso("2025-01-01T00:00:00+00:00")[1]

\* The handler of PlanUsageLoaded gives the PlanUsage to the panel.
UpdateUsage ==
    /\ panel = <<>>
    /\ panel' = <<update_usage(ComposedPanel, shown_usage[1], ShowClock)>>
    /\ UNCHANGED <<shown_usage, snapshot>>
    /\ UNCHANGED notShow

\* The snapshot prints its plan table.
PrintSnapshot ==
    /\ snapshot = <<>>
    /\ snapshot' = <<PlanTable(shown_usage[1], ShowClock)>>
    /\ UNCHANGED <<shown_usage, panel>>
    /\ UNCHANGED notShow

\* Utilizations an endpoint may send: below 0, inside the range, 100 and
\* above 100.
ShownLimits(label) ==
    {<<>>} \cup
    {<<PlanLimit(label, v, r)>> : v \in {0 - 5, 42, 100}, r \in {""}} \cup
    {<<PlanLimit(label, 150, "2025-01-01T05:00:00+00:00")>>}

\* What fetch_plan_usage returns: windows without an error, or an error
\* without windows.
ShowStart ==
    /\ shown_usage \in
          {<<PlanUsage(a, b, c, d, "")>> :
              a \in ShownLimits("5-Hour Session"),
              b \in ShownLimits("Weekly (All Models)"),
              c \in {<<>>, <<PlanLimit("Weekly (Sonnet)", 150, "")>>},
              d \in {<<>>, <<PlanLimit("Weekly (Opus)", 0 - 5, "")>>}}
          \cup {<<PlanUsage(<<>>, <<>>, <<>>, <<>>, "HTTP Error 401: Unauthorized")>>}
    /\ panel = <<>>
    /\ snapshot = <<>>

InitShow ==
    /\ ShowStart /\ RateIdle /\ FindIdle
    /\ PlanIdle /\ AppIdle /\ FormatIdle
    /\ ParseInit /\ FamilyIdle /\ MetricIdle /\ SummaryIdle /\ CycleIdle

ShowNext == UpdateUsage \/ PrintSnapshot

SpecShow == InitShow /\ [][ShowNext]_vars

\* The windows of a PlanUsage that are set.
SetWindows(u) == {w \in Windows : u[w] # <<>>}

\* The text of a percentage inside [0, 100].
PercentTexts == {ToStr(n) \o "%" : n \in 0..100}

\* C28: every utilization percentage of a quota window is clamped into
\* [0, 100] when it is read for output: whatever the endpoint returned, the
\* values shown by the plan-usage panel (bar and label) and by the
\* snapshot plan table lie in [0, 100].
C28_ShownWithinZeroAndHundred ==
    /\ panel # <<>> /\ available(shown_usage[1]) =>
          \A s \in {"five_hour", "seven_day", "model"} :
             /\ panel[1][s].progress \in 0..100
             /\ \A w \in SetWindows(shown_usage[1]) :
                   LET prefix == shown_usage[1][w][1].label \o ": "
                   IN  StartsWith(panel[1][s].label, prefix) =>
                          SubSeq(panel[1][s].label, Len(prefix) + 1, Len(panel[1][s].label)) \in PercentTexts
    /\ snapshot # <<>> =>
          \A k \in 1..Len(snapshot[1].rows) :
             \E t \in PercentTexts, style \in {"green", "yellow", "red"} :
                snapshot[1].rows[k].usage = "[" \o style \o "]" \o t \o "[/" \o style \o "]"

============================================================================
